---- MODULE Spec2Model ----
(***************************************************************************)
(* Model of the retrieval core of enterprise-storm:                         *)
(*   src/services/vector_search_service.py   VectorSearchService            *)
(*   src/database/repositories/source_material_repository.py                *)
(*   src/services/search/query_analyzer.py   LLMQueryAnalyzer               *)
(*   src/common/entity_resolver.py           CompanyEntityResolver          *)
(*   src/engine/retriever.py                 PostgresRM                      *)
(*                                                                         *)
(* Strings are sequences of one-character strings, so that lower() and the  *)
(* substring test `t in doc_company` are computed, not assumed.  Scores and *)
(* distances are integers in hundredths (score 100 = 1.0); every distance   *)
(* is a multiple of 10, so that x1.3 and x0.5 are exact.                    *)
(***************************************************************************)
EXTENDS Integers, Sequences, FiniteSets, TLC

(* ---------------------------------------------------------------------- *)
(* Bounds of the model                                                      *)
(* ---------------------------------------------------------------------- *)
MaxHits == 2        \* longest hit list handed to _rerank_results directly
MaxFrag == 3        \* fragments in the store
MaxTopK == 2        \* largest top_k asked for

(* ---------------------------------------------------------------------- *)
(* Strings                                                                  *)
(* ---------------------------------------------------------------------- *)
EmptyStr == << >>
S_Abc == <<"A", "b", "c">>
S_Abd == <<"A", "b", "d">>
S_abc == <<"a", "b", "c">>
S_bd == <<"b", "d">>
S_q == <<"q">>
S_UnknownCompany ==
    <<"U", "n", "k", "n", "o", "w", "n", " ", "C", "o", "m", "p", "a", "n", "y">>
S_unknown_company ==
    <<"u", "n", "k", "n", "o", "w", "n", " ", "c", "o", "m", "p", "a", "n", "y">>

UpperToLower == [A |-> "a", B |-> "b", C |-> "c", D |-> "d", U |-> "u"]

LowerChar(c) == IF c \in DOMAIN UpperToLower THEN UpperToLower[c] ELSE c

\* str.lower()
Lower(s) == [i \in 1..Len(s) |-> LowerChar(s[i])]

\* Python's `t in s` on strings: t occurs in s as a contiguous substring
\* (the empty string occurs in every string).
Contains(s, t) ==
    \E k \in 0..(Len(s) - Len(t)) :
        \A i \in 1..Len(t) : s[k + i] = t[i]

(* ---------------------------------------------------------------------- *)
(* QueryAnalysisResult                                                      *)
(* ---------------------------------------------------------------------- *)
Intents == {"factoid", "analytical", "comparison", "general"}

(* ---------------------------------------------------------------------- *)
(* VectorSearchService._rerank_results                                      *)
(* A doc is a dict: a record with the keys url, score, _company_name, ...   *)
(* The url identifies the dict.                                             *)
(* ---------------------------------------------------------------------- *)
Boost_Unchanged(score) == score             \* a boost that leaves the score
Boost(score) == (score * 13) \div 10        \* original_score * 1.3
Penalty(score) == score \div 2              \* original_score * 0.5

\* targets = [c.lower() for c in resolved_companies]
Targets(resolved) == [i \in 1..Len(resolved) |-> Lower(resolved[i])]

\* doc.get('_company_name', '')
DocCompany(doc) ==
    IF "_company_name" \in DOMAIN doc THEN doc._company_name ELSE EmptyStr

\* is_matched with the company label compared as stored, not lower-cased.
IsMatched_CaseSensitive(doc, targets) ==
    LET doc_company == DocCompany(doc)
    IN  IF doc_company = EmptyStr \/ doc_company = S_unknown_company
        THEN TRUE
        ELSE \E i \in 1..Len(targets) : Contains(doc_company, targets[i])

\* is_matched of one doc (lines 176-184)
IsMatched(doc, targets) ==
    LET doc_company == Lower(DocCompany(doc))
    IN  IF doc_company = EmptyStr \/ doc_company = S_unknown_company
        THEN TRUE
        ELSE \E i \in 1..Len(targets) : Contains(doc_company, targets[i])

\* Variants of UnmatchedPolicy: a factoid miss is penalized instead of dropped;
\* the relaxed (competitor) mode is ignored.
UnmatchedPolicy_FactoidPenalized(intent, is_relaxed_mode) ==
    IF is_relaxed_mode THEN "keep" ELSE "penalize"

UnmatchedPolicy_NoRelaxedMode(intent, is_relaxed_mode) ==
    IF intent = "factoid" THEN "drop" ELSE "penalize"

\* What the loop body does with an unmatched doc (lines 189-200):
\* "keep", "drop" or "penalize".
UnmatchedPolicy(intent, is_relaxed_mode) ==
    IF is_relaxed_mode THEN "keep"
    ELSE IF intent = "factoid" THEN "drop"
    ELSE "penalize"

\* The loop of lines 175-200: the list `reranked` before the sort.
RECURSIVE RerankLoop(_, _, _, _)
RerankLoop(results, targets, intent, is_relaxed_mode) ==
    IF results = << >> THEN << >>
    ELSE LET doc == Head(results)
             rest == RerankLoop(Tail(results), targets, intent, is_relaxed_mode)
             policy == UnmatchedPolicy(intent, is_relaxed_mode)
         IN  IF IsMatched(doc, targets)
             THEN <<[doc EXCEPT !.score = Boost(doc.score)]>> \o rest
             ELSE IF policy = "keep" THEN <<doc>> \o rest
             ELSE IF policy = "drop" THEN rest
             ELSE <<[doc EXCEPT !.score = Penalty(doc.score)]>> \o rest

\* list.sort(key=score, reverse=True): stable, descending.
RECURSIVE InsertDesc(_, _)
InsertDesc(doc, sorted) ==
    IF sorted = << >> THEN <<doc>>
    ELSE IF Head(sorted).score >= doc.score
         THEN <<Head(sorted)>> \o InsertDesc(doc, Tail(sorted))
         ELSE <<doc>> \o sorted

RECURSIVE SortDesc(_)
SortDesc(docs) ==
    IF docs = << >> THEN << >>
    ELSE LET n == Len(docs)
         IN  InsertDesc(docs[n], SortDesc(SubSeq(docs, 1, n - 1)))

RerankResults(results, analysis, resolved_companies) ==
    LET targets == Targets(resolved_companies)
    IN  IF targets = << >> /\ ~analysis.is_competitor_query
        THEN results
        ELSE SortDesc(RerankLoop(results, targets, analysis.intent,
                                 analysis.is_competitor_query))

(* ---------------------------------------------------------------------- *)
(* Python values                                                            *)
(* ---------------------------------------------------------------------- *)
\* An optional value: None, or Some(x).
None == << >>
Some(x) == <<x>>

\* The outcome of a call: it returned a value, or it raised an exception of
\* a type, with the cause it was raised from (`raise ... from e`).
NoError == [type |-> "", cause |-> ""]
Returned(v) == [status |-> "returned", value |-> v, error |-> NoError]
Raised(type, cause) ==
    [status |-> "raised", value |-> << >>, error |-> [type |-> type, cause |-> cause]]

SeqToSet(q) == {q[i] : i \in 1..Len(q)}

Min(a, b) == IF a <= b THEN a ELSE b

(* ---------------------------------------------------------------------- *)
(* The fragment store: Source_Materials joined to Analysis_Reports and      *)
(* Companies.  A store is a function from fragment ids to rows.             *)
(* ---------------------------------------------------------------------- *)
S_NAVER == <<"N", "A", "V", "E", "R">>
S_naver == <<"n", "a", "v", "e", "r">>

Reports == {1, 2}
ChunkTypes == {"text", "table", "noise_merged"}
FragIds == 1..MaxFrag
Gaps == {2, 3}

\* Company.company_name of the company that owns a report.
CompanyOf == [r \in Reports |-> IF r = 1 THEN S_NAVER ELSE S_Abc]

\* The cosine distance of a fragment's embedding to the query embedding, in
\* hundredths: distinct multiples of 10 in [0, 200].
Distance == [i \in FragIds |-> (i * 70) % 190]

\* sequence_order: increasing in document order, as the ingestion assigns it.
RECURSIVE SeqOrder(_, _)
SeqOrder(gaps, i) == IF i = 1 THEN 0 ELSE SeqOrder(gaps, i - 1) + gaps[i]

\* What a fragment is: its chunk_type and the has_merged_meta flag of its
\* meta_info (set on tables only).
Kinds ==
    {[chunk_type |-> c, has_merged_meta |-> FALSE] : c \in ChunkTypes}
        \cup {[chunk_type |-> "table", has_merged_meta |-> TRUE]}

MkStore(kinds, reports, gaps) ==
    [i \in FragIds |->
        [id |-> i,
         report_id |-> reports[i],
         chunk_type |-> kinds[i].chunk_type,
         sequence_order |-> SeqOrder(gaps, i),
         section_path |-> <<"section", i>>,
         has_merged_meta |-> kinds[i].has_merged_meta,
         company_name |-> CompanyOf[reports[i]],
         distance |-> Distance[i]]]

\* Every store of MaxFrag fragments.
\* (The first fragment is of report 1: the report ids are interchangeable.)
AllStores ==
    {MkStore(k, r, g) :
        k \in [FragIds -> Kinds], r \in {rr \in [FragIds -> Reports] : rr[1] = 1},
        g \in [FragIds \ {1} -> Gaps]}

\* The stores of text fragments only.
TextStores ==
    {MkStore([i \in FragIds |-> [chunk_type |-> "text", has_merged_meta |-> FALSE]],
             r, g) :
        r \in [FragIds -> Reports], g \in [FragIds \ {1} -> {2}]}

(* ---------------------------------------------------------------------- *)
(* SourceMaterialRepository                                                 *)
(* ---------------------------------------------------------------------- *)
\* ORDER BY key ASC over a set of fragment ids with distinct keys.
RECURSIVE OrderBy(_, _, _)
OrderBy(st, ids, key) ==
    IF ids = {} THEN << >>
    ELSE LET first == CHOOSE i \in ids : \A j \in ids : st[i][key] <= st[j][key]
         IN  <<first>> \o OrderBy(st, ids \ {first}, key)

\* The limit that truncates nothing.
Limit_Unbounded(q, n) == q

Limit(q, n) == SubSeq(q, 1, Min(n, Len(q)))

\* The WHERE clause without its exclusion of noise_merged fragments.
VectorWhere_WithNoise(st, company_filter_list, chunk_type_filter) ==
    {i \in DOMAIN st :
        /\ (company_filter_list # None /\ company_filter_list[1] # << >>)
              => st[i].company_name \in SeqToSet(company_filter_list[1])
        /\ (chunk_type_filter # None /\ chunk_type_filter[1] # "")
              => st[i].chunk_type = chunk_type_filter[1]}

\* The WHERE clause with an empty company list taken as 'no company'.
VectorWhere_EmptyListMatchesNothing(st, company_filter_list, chunk_type_filter) ==
    {i \in DOMAIN st :
        /\ st[i].chunk_type # "noise_merged"
        /\ company_filter_list # None
              => st[i].company_name \in SeqToSet(company_filter_list[1])
        /\ (chunk_type_filter # None /\ chunk_type_filter[1] # "")
              => st[i].chunk_type = chunk_type_filter[1]}

\* The WHERE clause of search_by_vector (lines 83-92).
VectorWhere(st, company_filter_list, chunk_type_filter) ==
    {i \in DOMAIN st :
        /\ st[i].chunk_type # "noise_merged"
        /\ (company_filter_list # None /\ company_filter_list[1] # << >>)
              => st[i].company_name \in SeqToSet(company_filter_list[1])
        /\ (chunk_type_filter # None /\ chunk_type_filter[1] # "")
              => st[i].chunk_type = chunk_type_filter[1]}

\* search_by_vector: the rows (SourceMaterial, company_name, distance), or
\* RepositoryError raised from the driver's error.  A negative LIMIT is an
\* error of the store.
SearchByVector(st, driver_fails, top_k, company_filter_list, chunk_type_filter) ==
    IF driver_fails \/ top_k < 0
    THEN Raised("RepositoryError", "DriverError")
    ELSE LET ids == Limit(OrderBy(st, VectorWhere(st, company_filter_list,
                                                  chunk_type_filter), "distance"),
                          top_k)
         IN  Returned([n \in 1..Len(ids) |->
                          [material |-> st[ids[n]],
                           company_name |-> st[ids[n]].company_name,
                           distance |-> st[ids[n]].distance]])

\* The WHERE clause of get_nearest_next_chunk (lines 211-215).
NextWhere(st, report_id, current_seq) ==
    {i \in DOMAIN st :
        /\ st[i].report_id = report_id
        /\ st[i].sequence_order > current_seq
        /\ st[i].chunk_type # "noise_merged"}

\* get_nearest_next_chunk: Some(fragment) or None; the driver's error is not
\* caught.
GetNearestNextChunk(st, driver_fails, report_id, current_seq) ==
    IF driver_fails
    THEN Raised("DriverError", "")
    ELSE LET ids == Limit(OrderBy(st, NextWhere(st, report_id, current_seq),
                                  "sequence_order"), 1)
         IN  Returned(IF ids = << >> THEN None ELSE Some(st[ids[1]]))

\* The WHERE clause of get_context_window (lines 126-137).
WindowWhere(st, report_id, center_sequence, window_size) ==
    LET min_seq == center_sequence - window_size
        max_seq == center_sequence + window_size
    IN  {i \in DOMAIN st :
            /\ st[i].report_id = report_id
            /\ st[i].sequence_order >= min_seq /\ st[i].sequence_order <= max_seq
            /\ st[i].chunk_type # "noise_merged"
            /\ st[i].sequence_order # center_sequence}

GetContextWindow(st, driver_fails, report_id, center_sequence, window_size) ==
    IF driver_fails
    THEN Raised("RepositoryError", "DriverError")
    ELSE LET ids == OrderBy(st, WindowWhere(st, report_id, center_sequence,
                                            window_size), "sequence_order")
         IN  Returned([n \in 1..Len(ids) |-> st[ids[n]]])

\* meta_info['corp_name'] of a fragment: the name of the company of its report.
CorpName(frag) == frag.company_name

\* SELECT DISTINCT corp_name, with the empty names removed: the names, in an
\* order the store chooses.
DistinctCorpNames(st) == {CorpName(st[i]) : i \in DOMAIN st} \ {EmptyStr}

Orderings(S) == {q \in [1..Cardinality(S) -> S] : SeqToSet(q) = S}

\* get_all_company_names, given the order the store returned: the driver's
\* error is not caught.
GetAllCompanyNames(st, driver_fails, order) ==
    IF driver_fails THEN Raised("DriverError", "") ELSE Returned(order)

(* ---------------------------------------------------------------------- *)
(* CompanyEntityResolver                                                    *)
(* ---------------------------------------------------------------------- *)
\* SYNONYM_MAP, restricted to the entry over the model's alphabet (line 43).
SYNONYM_MAP == {<<S_naver, S_NAVER>>}

\* str.strip(): leading and trailing spaces removed.
RECURSIVE LStrip(_)
LStrip(s) == IF s # << >> /\ Head(s) = " " THEN LStrip(Tail(s)) ELSE s

RECURSIVE RStrip(_)
RStrip(s) ==
    IF s # << >> /\ s[Len(s)] = " " THEN RStrip(SubSeq(s, 1, Len(s) - 1)) ELSE s

Strip(s) == RStrip(LStrip(s))

\* str.replace(" ", "")
RECURSIVE RemoveSpaces(_)
RemoveSpaces(s) ==
    IF s = << >> THEN << >>
    ELSE IF Head(s) = " " THEN RemoveSpaces(Tail(s))
    ELSE <<Head(s)>> \o RemoveSpaces(Tail(s))

\* Length of the longest common subsequence.
RECURSIVE LCS(_, _)
LCS(a, b) ==
    IF a = << >> \/ b = << >> THEN 0
    ELSE IF Head(a) = Head(b) THEN 1 + LCS(Tail(a), Tail(b))
    ELSE LET x == LCS(Tail(a), b)
             y == LCS(a, Tail(b))
         IN  IF x >= y THEN x ELSE y

\* The scorer of extractOne, in hundredths of a point (6500 = 65.0): 0 if
\* either string is empty, else the normalized indel similarity
\* 100 * 2 * LCS / (len(a) + len(b)) that fuzz.WRatio starts from.
Similarity(a, b) ==
    IF a = << >> \/ b = << >> THEN 0
    ELSE (20000 * LCS(a, b)) \div (Len(a) + Len(b))

\* extractOne without its cutoff: the best choice whatever its score.
ExtractOne_NoCutoff(query, choices, score_cutoff) ==
    Some(choices[CHOOSE i \in 1..Len(choices) :
                    \A j \in 1..Len(choices) :
                        \/ Similarity(query, choices[i]) > Similarity(query, choices[j])
                        \/ /\ Similarity(query, choices[i]) = Similarity(query, choices[j])
                           /\ i <= j])

\* process.extractOne(query, choices, score_cutoff): the first choice with
\* the best score, if that score reaches the cutoff; None for no choices.
ExtractOne(query, choices, score_cutoff) ==
    IF choices = << >> THEN None
    ELSE
    LET best == CHOOSE i \in 1..Len(choices) :
                    \A j \in 1..Len(choices) :
                        \/ Similarity(query, choices[i]) > Similarity(query, choices[j])
                        \/ /\ Similarity(query, choices[i]) = Similarity(query, choices[j])
                           /\ i <= j
    IN  IF Similarity(query, choices[best]) >= score_cutoff
        THEN Some(choices[best])
        ELSE None

\* resolve with the synonym table consulted first and not validated against
\* the roster.
Resolve_SynonymFirst(db_companies, query, threshold) ==
    IF query = EmptyStr \/ db_companies = << >> THEN None
    ELSE LET clean_query == Strip(query)
             normalized_key == Lower(RemoveSpaces(clean_query))
             synonyms == {e \in SYNONYM_MAP : e[1] = normalized_key}
         IN  IF synonyms # {} THEN Some((CHOOSE e \in synonyms : TRUE)[2])
             ELSE IF clean_query \in SeqToSet(db_companies) THEN Some(clean_query)
             ELSE ExtractOne(clean_query, db_companies, threshold)

\* resolve without its exact-match step.
Resolve_NoExactMatch(db_companies, query, threshold) ==
    IF query = EmptyStr \/ db_companies = << >> THEN None
    ELSE LET clean_query == Strip(query)
             normalized_key == Lower(RemoveSpaces(clean_query))
             synonyms == {e \in SYNONYM_MAP :
                             e[1] = normalized_key /\ e[2] \in SeqToSet(db_companies)}
         IN  IF synonyms # {} THEN Some((CHOOSE e \in synonyms : TRUE)[2])
             ELSE ExtractOne(clean_query, db_companies, threshold)

\* CompanyEntityResolver.resolve: Some(name) or None.
Resolve(db_companies, query, threshold) ==
    IF query = EmptyStr \/ db_companies = << >> THEN None
    ELSE LET clean_query == Strip(query)
             normalized_key == Lower(RemoveSpaces(clean_query))
             synonyms == {e \in SYNONYM_MAP :
                             e[1] = normalized_key /\ e[2] \in SeqToSet(db_companies)}
         IN  IF clean_query \in SeqToSet(db_companies) THEN Some(clean_query)
             ELSE IF synonyms # {} THEN Some((CHOOSE e \in synonyms : TRUE)[2])
             ELSE ExtractOne(clean_query, db_companies, threshold)

(* ---------------------------------------------------------------------- *)
(* LLMQueryAnalyzer.analyze                                                 *)
(* ---------------------------------------------------------------------- *)
\* The fallback of the except branch (lines 64-69).
DefaultAnalysis(query) ==
    [intent |-> "general", target_companies |-> << >>,
     is_competitor_query |-> FALSE, keywords |-> <<query>>]

\* analyze without its except branch: the failure of the model call escapes.
Analyze_Propagates(llm, query) ==
    IF llm = None THEN Raised("LLMError", "") ELSE Returned(llm[1])

\* analyze: llm is what the model call does, Some(parsed reply) or None when
\* it raises.
Analyze(llm, query) ==
    IF llm = None THEN Returned(DefaultAnalysis(query)) ELSE Returned(llm[1])

(* ---------------------------------------------------------------------- *)
(* VectorSearchService.search                                               *)
(* ---------------------------------------------------------------------- *)
\* The content of a result is a sequence of pieces.
RawContent(frag) == [kind |-> "raw_content", frag |-> frag.id]
TableHeader == [kind |-> "table_header"]
MergedMetaNote == [kind |-> "merged_meta_note"]
SourceTag(company, rid) == [kind |-> "source_tag", company |-> company, rid |-> rid]

\* f"dart_report_{report_id}_chunk_{id}", as its pieces between underscores.
Url(frag) == <<"dart", "report", frag.report_id, "chunk", frag.id>>

\* Lines 73-80: each mention resolved, or kept as it is.
ResolveAll(db_companies, target_companies) ==
    [i \in 1..Len(target_companies) |->
        LET resolved == Resolve(db_companies, target_companies[i], 6500)
        IN  IF resolved # None /\ resolved[1] # EmptyStr
            THEN resolved[1]
            ELSE target_companies[i]]

\* The attachment without its check of the gap.
AttachTable_AnyGap(material, next_chunk) ==
    next_chunk # None /\ next_chunk[1].chunk_type = "table"

\* Lines 116-119: the next chunk is attached.
AttachTable(material, next_chunk) ==
    /\ next_chunk # None
    /\ next_chunk[1].chunk_type = "table"
    /\ next_chunk[1].sequence_order - material.sequence_order <= 5

\* Lines 109-134: the result built from one row and its next chunk.
ProcessRow(row, next_chunk, analysis, resolved_companies) ==
    LET material == row.material
        base == <<RawContent(material)>>
        content ==
            IF AttachTable(material, next_chunk)
            THEN (IF next_chunk[1].has_merged_meta THEN <<MergedMetaNote>> ELSE << >>)
                     \o base \o <<TableHeader, RawContent(next_chunk[1])>>
            ELSE base
    IN  [content |-> content,
         title |-> material.section_path,
         url |-> Url(material),
         score |-> 100 - row.distance,
         _company_name |-> row.company_name,
         _intent |-> analysis.intent,
         _matched_entities |-> resolved_companies]

InternalKeys == {"_company_name", "_intent", "_matched_entities"}

\* _apply_source_tagging on one doc (lines 208-220).
TagDoc(doc) ==
    LET company == IF "_company_name" \in DOMAIN doc
                   THEN doc._company_name ELSE <<"Unknown">>
        rid == IF Len(doc.url) >= 3 THEN doc.url[3] ELSE "N/A"
        tagged == [doc EXCEPT !.content = <<SourceTag(company, rid)>> \o doc.content]
    IN  [k \in DOMAIN tagged \ InternalKeys |-> tagged[k]]

ApplySourceTagging(results) == [i \in 1..Len(results) |-> TagDoc(results[i])]

\* The filter strategy with the filter kept for competitor queries.
FilterStrategy_KeepsFilter(analysis, resolved_companies, top_k) ==
    [company_filter_list |-> Some(resolved_companies),
     top_k |-> IF analysis.is_competitor_query THEN top_k * 2 ELSE top_k,
     chunk_type_filter |-> Some("text")]

\* Lines 89-100: the arguments of the store's similarity search.
FilterStrategy(analysis, resolved_companies, top_k) ==
    [company_filter_list |->
        IF analysis.is_competitor_query THEN None ELSE Some(resolved_companies),
     top_k |-> IF analysis.is_competitor_query THEN top_k * 2 ELSE top_k,
     chunk_type_filter |-> Some("text")]

\* What search does once it has its rows (lines 106-145).  `fault` names the
\* capability that fails in this call, if any.
SearchRows(st, rows, top_k, enable_rerank, enable_source_tagging, analysis, resolved_companies, fault, calls) ==
    LET Next(n) == GetNearestNextChunk(st, fault = "get_nearest_next_chunk",
                                       rows[n].material.report_id,
                                       rows[n].material.sequence_order)
        Lookup(n) == [op |-> "get_nearest_next_chunk",
                      report_id |-> rows[n].material.report_id,
                      current_seq |-> rows[n].material.sequence_order]
    IN  IF fault = "get_nearest_next_chunk"
        THEN [calls |-> calls \o <<Lookup(1)>>, outcome |-> Next(1),
              analysis |-> Some(analysis)]
        ELSE LET processed ==
                     [n \in 1..Len(rows) |->
                         ProcessRow(rows[n], Next(n).value, analysis, resolved_companies)]
                 reranked ==
                     IF enable_rerank
                     THEN Limit(RerankResults(processed, analysis, resolved_companies),
                                top_k)
                     ELSE processed
                 tagged ==
                     IF enable_source_tagging
                     THEN ApplySourceTagging(reranked)
                     ELSE reranked
             IN  [calls |-> calls \o [n \in 1..Len(rows) |-> Lookup(n)],
                  outcome |-> Returned(tagged),
                  analysis |-> Some(analysis)]

\* VectorSearchService.search: the capabilities it invoked, in order, its
\* outcome, and its local `analysis` (None before line 68 has returned).
\* llm is what the model call of the analyzer does; fault names the
\* capability that fails in this call, if any.
Search(st, db_companies, query, top_k, enable_rerank, enable_source_tagging, llm, fault) ==
    LET analyzed == Analyze(llm, query)
        calls1 == <<[op |-> "analyze", query |-> query]>>
    IN  IF analyzed.status = "raised"
        THEN [calls |-> calls1, outcome |-> analyzed, analysis |-> None]
        ELSE
        LET analysis == analyzed.value
            resolved_companies == ResolveAll(db_companies, analysis.target_companies)
            calls2 == calls1 \o <<[op |-> "embed_text", text |-> query]>>
        IN  IF fault = "embed_text"
            THEN [calls |-> calls2, outcome |-> Raised("EmbeddingError", ""),
                  analysis |-> Some(analysis)]
            ELSE
            LET args == FilterStrategy(analysis, resolved_companies, top_k)
                calls3 == calls2 \o <<[op |-> "search_by_vector"] @@ args>>
                raw_rows == SearchByVector(st, fault = "search_by_vector", args.top_k,
                                           args.company_filter_list,
                                           args.chunk_type_filter)
            IN  IF raw_rows.status = "raised"
                THEN [calls |-> calls3, outcome |-> raw_rows,
                      analysis |-> Some(analysis)]
                ELSE IF raw_rows.value = << >>
                THEN [calls |-> calls3, outcome |-> Returned(<< >>),
                      analysis |-> Some(analysis)]
                ELSE SearchRows(st, raw_rows.value, top_k, enable_rerank,
                                enable_source_tagging, analysis, resolved_companies,
                                fault, calls3)

(* ---------------------------------------------------------------------- *)
(* State                                                                    *)
(* ---------------------------------------------------------------------- *)
VARIABLES
    store,          \* the fragment store (read-only for the core)
    db_companies,   \* CompanyEntityResolver.db_companies of the search service
    ret,            \* the last call made on the service or the repository
    rrResults,      \* _rerank_results: the argument `results`
    rrAnalysis,     \* _rerank_results: the argument `analysis`
    rrResolved,     \* _rerank_results: the argument `resolved_companies`
    rrOut,          \* _rerank_results: the returned list
    rrDone,         \* _rerank_results has returned
    rmUsage,        \* PostgresRM.usage
    rmSessions,     \* store sessions PostgresRM holds open
    hyConfig,       \* HybridRM: internal_k, external_k, and what external_rm exposes
    hyUsage,        \* HybridRM.usage
    extUsage,       \* the usage counter of external_rm
    hySubmitted,    \* history: queries handed to HybridRM.forward (since the last
                    \* reset, where get_usage_and_reset runs alone)
    threads,        \* threads calling one HybridRM: where each is, and its locals
    reported,       \* history: sum of the 'HybridRM' values get_usage_and_reset returned
    reader          \* a thread inside CompanyEntityResolver.resolve: where it is, its locals

vars == <<store, db_companies, ret, rrResults, rrAnalysis, rrResolved, rrOut, rrDone,
          rmUsage, rmSessions, hyConfig, hyUsage, extUsage, hySubmitted,
          threads, reported, reader>>

serviceVars == <<store, db_companies, ret>>
rerankVars == <<rrResults, rrAnalysis, rrResolved, rrOut, rrDone>>
rmVars == <<rmUsage, rmSessions>>
hyVars == <<hyConfig, hyUsage, extUsage, hySubmitted>>
thVars == <<threads, reported, reader>>

NoCall == [op |-> "none", args |-> << >>, env |-> << >>, calls |-> << >>,
           analysis |-> None, outcome |-> Returned(<< >>)]

\* No service: the state of the service part where only a function is run.
NoService ==
    /\ store = << >>
    /\ db_companies = << >>
    /\ ret = NoCall

\* No PostgresRM.
NoRM ==
    /\ rmUsage = 0
    /\ rmSessions = 0

\* No HybridRM.
NoHybrid ==
    /\ hyConfig = << >>
    /\ hyUsage = 0
    /\ extUsage = 0
    /\ hySubmitted = 0

\* No concurrent callers.
NoReader == [pc |-> "none"]

NoThreads ==
    /\ threads = << >>
    /\ reported = 0
    /\ reader = NoReader

\* No direct call of _rerank_results.
NoRerank ==
    /\ rrResults = << >>
    /\ rrAnalysis = [intent |-> "general", is_competitor_query |-> FALSE]
    /\ rrResolved = << >>
    /\ rrOut = << >>
    /\ rrDone = TRUE

(* ---------------------------------------------------------------------- *)
(* _rerank_results on its own, for every input                              *)
(* ---------------------------------------------------------------------- *)
RerankLabels == {EmptyStr, S_UnknownCompany, S_Abc, S_Abd}
RerankScores == {-20, 50, 80}
RerankNames == {S_Abc, S_bd, EmptyStr}
RerankTargetLists ==
    {<< >>} \cup {<<a>> : a \in RerankNames}
            \cup {<<a, b>> : a \in RerankNames, b \in RerankNames}

SeqUpTo(S, n) == UNION {[1..m -> S] : m \in 0..n}

RerankInputs ==
    {[i \in 1..Len(p) |-> [url |-> i, _company_name |-> p[i][1], score |-> p[i][2]]] :
        p \in SeqUpTo(RerankLabels \X RerankScores, MaxHits)}

InitRerank ==
    /\ rrResults \in RerankInputs
    /\ rrAnalysis \in [intent : Intents, is_competitor_query : BOOLEAN]
    /\ rrResolved \in RerankTargetLists
    /\ rrOut = << >>
    /\ rrDone = FALSE
    /\ NoService
    /\ NoRM
    /\ NoHybrid
    /\ NoThreads

CallRerank ==
    /\ ~rrDone
    /\ rrOut' = RerankResults(rrResults, rrAnalysis, rrResolved)
    /\ rrDone' = TRUE
    /\ UNCHANGED <<rrResults, rrAnalysis, rrResolved>>
    /\ UNCHANGED <<serviceVars, rmVars, hyVars, thVars>>

NextRerank == CallRerank

SpecRerank == InitRerank /\ [][NextRerank]_vars

(* ---------------------------------------------------------------------- *)
(* The search service over a store                                          *)
(* ---------------------------------------------------------------------- *)
Queries == {EmptyStr, S_q}
TopKs == (-1)..MaxTopK
Faults == {"none", "embed_text", "search_by_vector", "get_nearest_next_chunk"}
TargetMentions == {<< >>, <<S_naver>>, <<S_Abc>>}

\* What the model call of the analyzer can do: raise (None) or reply.
LLMReplies ==
    [intent : Intents, target_companies : TargetMentions,
     is_competitor_query : BOOLEAN, keywords : {<< >>}]
LLMOutcomes == {None} \cup {Some(r) : r \in LLMReplies}

\* VectorSearchService.__init__ (line 41): the resolver starts with no roster.
\* A behaviour is the start-up of the service and one call of search.
Init ==
    /\ store \in TextStores
    /\ db_companies = << >>
    /\ ret = NoCall
    /\ NoRerank
    /\ NoRM
    /\ NoHybrid
    /\ NoThreads

\* VectorSearchService.initialize_resolver
InitializeResolver(driver_fails, order) ==
    LET companies == GetAllCompanyNames(store, driver_fails, order)
    IN  /\ ret.op \in {"none", "initialize_resolver"}
        /\ db_companies' = IF companies.status = "returned"
                           THEN companies.value ELSE db_companies
        /\ ret' = [op |-> "initialize_resolver", args |-> << >>,
                   env |-> [driver_fails |-> driver_fails],
                   calls |-> <<[op |-> "get_all_company_names"]>>,
                   analysis |-> None,
                   outcome |-> IF companies.status = "returned"
                               THEN Returned(<< >>) ELSE companies]
        /\ UNCHANGED <<store, rerankVars, rmVars, hyVars, thVars>>

\* VectorSearchService.search
CallSearch(query, top_k, enable_rerank, enable_source_tagging, llm, fault) ==
    LET run == Search(store, db_companies, query, top_k, enable_rerank,
                      enable_source_tagging, llm, fault)
    IN  /\ ret.op \in {"none", "initialize_resolver"}
        /\ ret' = [op |-> "search",
                   args |-> [query |-> query, top_k |-> top_k,
                             enable_rerank |-> enable_rerank,
                             enable_source_tagging |-> enable_source_tagging],
                   env |-> [llm |-> llm, fault |-> fault],
                   calls |-> run.calls,
                   analysis |-> run.analysis,
                   outcome |-> run.outcome]
        /\ UNCHANGED <<store, db_companies, rerankVars, rmVars, hyVars, thVars>>

Next ==
    \/ \E driver_fails \in BOOLEAN, order \in Orderings(DistinctCorpNames(store)) :
           InitializeResolver(driver_fails, order)
    \/ \E query \in Queries, top_k \in TopKs, enable_rerank \in BOOLEAN,
          enable_source_tagging \in BOOLEAN, llm \in LLMOutcomes :
           CallSearch(query, top_k, enable_rerank, enable_source_tagging, llm, "none")
    \* a capability fails: the two flags, read after it, play no part
    \/ \E query \in Queries, top_k \in TopKs, llm \in LLMOutcomes,
          fault \in Faults \ {"none"} :
           CallSearch(query, top_k, TRUE, TRUE, llm, fault)

Spec == Init /\ [][Next]_vars

(* ---------------------------------------------------------------------- *)
(* The repository and the search service over every store                   *)
(* ---------------------------------------------------------------------- *)
StoreTopKs == 0..MaxTopK
StoreFilters == {None, Some(<< >>), Some(<<S_Abc>>)}
StoreChunkFilters == {None, Some("text"), Some("noise_merged")}
WindowSizes == {0, 2, 5}

\* The sequence numbers asked about: those of the store, and one before.
SeqArgs(st) == {st[i].sequence_order : i \in DOMAIN st} \cup {-1}

\* A competitor query, as the analyzer may reply.
CompetitorReply ==
    [intent |-> "comparison", target_companies |-> <<S_Abc>>,
     is_competitor_query |-> TRUE, keywords |-> << >>]

InitStore ==
    /\ store \in AllStores
    /\ db_companies = << >>
    /\ ret = NoCall
    /\ NoRerank
    /\ NoRM
    /\ NoHybrid
    /\ NoThreads

\* SourceMaterialRepository.search_by_vector, called directly
CallSearchByVector(driver_fails, top_k, company_filter_list, chunk_type_filter) ==
    /\ ret.op = "none"
    /\ ret' = [op |-> "search_by_vector",
               args |-> [top_k |-> top_k, company_filter_list |-> company_filter_list,
                         chunk_type_filter |-> chunk_type_filter],
               env |-> [driver_fails |-> driver_fails],
               calls |-> << >>, analysis |-> None,
               outcome |-> SearchByVector(store, driver_fails, top_k,
                                          company_filter_list, chunk_type_filter)]
    /\ UNCHANGED <<store, db_companies, rerankVars, rmVars, hyVars, thVars>>

\* SourceMaterialRepository.get_nearest_next_chunk, called directly
CallGetNearestNextChunk(driver_fails, report_id, current_seq) ==
    /\ ret.op = "none"
    /\ ret' = [op |-> "get_nearest_next_chunk",
               args |-> [report_id |-> report_id, current_seq |-> current_seq],
               env |-> [driver_fails |-> driver_fails],
               calls |-> << >>, analysis |-> None,
               outcome |-> GetNearestNextChunk(store, driver_fails, report_id,
                                               current_seq)]
    /\ UNCHANGED <<store, db_companies, rerankVars, rmVars, hyVars, thVars>>

\* SourceMaterialRepository.get_context_window, called directly
CallGetContextWindow(driver_fails, report_id, center_sequence, window_size) ==
    /\ ret.op = "none"
    /\ ret' = [op |-> "get_context_window",
               args |-> [report_id |-> report_id, center_sequence |-> center_sequence,
                         window_size |-> window_size],
               env |-> [driver_fails |-> driver_fails],
               calls |-> << >>, analysis |-> None,
               outcome |-> GetContextWindow(store, driver_fails, report_id,
                                            center_sequence, window_size)]
    /\ UNCHANGED <<store, db_companies, rerankVars, rmVars, hyVars, thVars>>

\* SourceMaterialRepository.get_all_company_names, called directly
CallGetAllCompanyNames(driver_fails, order) ==
    /\ ret.op = "none"
    /\ ret' = [op |-> "get_all_company_names", args |-> << >>,
               env |-> [driver_fails |-> driver_fails],
               calls |-> << >>, analysis |-> None,
               outcome |-> GetAllCompanyNames(store, driver_fails, order)]
    /\ UNCHANGED <<store, db_companies, rerankVars, rmVars, hyVars, thVars>>

\* The store answers every query.
NextStore ==
    \/ \E top_k \in StoreTopKs, company_filter_list \in StoreFilters,
          chunk_type_filter \in StoreChunkFilters :
           CallSearchByVector(FALSE, top_k, company_filter_list, chunk_type_filter)
    \/ \E report_id \in Reports, current_seq \in SeqArgs(store) :
           CallGetNearestNextChunk(FALSE, report_id, current_seq)
    \/ \E report_id \in Reports, center_sequence \in SeqArgs(store),
          window_size \in WindowSizes :
           CallGetContextWindow(FALSE, report_id, center_sequence, window_size)
    \/ \E order \in Orderings(DistinctCorpNames(store)) :
           CallGetAllCompanyNames(FALSE, order)
    \/ \E top_k \in 1..MaxTopK, enable_rerank \in BOOLEAN,
          llm \in {None, Some(CompetitorReply)} :
           CallSearch(S_q, top_k, enable_rerank, TRUE, llm, "none")

SpecStore == InitStore /\ [][NextStore]_vars

(* ---------------------------------------------------------------------- *)
(* The repository over a store whose queries may fail                       *)
(* ---------------------------------------------------------------------- *)
InitFaults ==
    /\ store \in TextStores
    /\ db_companies = << >>
    /\ ret = NoCall
    /\ NoRerank
    /\ NoRM
    /\ NoHybrid
    /\ NoThreads

NextFaults ==
    \/ \E driver_fails \in BOOLEAN, top_k \in StoreTopKs, company_filter_list \in StoreFilters,
          chunk_type_filter \in StoreChunkFilters :
           CallSearchByVector(driver_fails, top_k, company_filter_list, chunk_type_filter)
    \/ \E driver_fails \in BOOLEAN, report_id \in Reports,
          current_seq \in SeqArgs(store) :
           CallGetNearestNextChunk(driver_fails, report_id, current_seq)
    \/ \E driver_fails \in BOOLEAN, report_id \in Reports,
          center_sequence \in SeqArgs(store), window_size \in WindowSizes :
           CallGetContextWindow(driver_fails, report_id, center_sequence, window_size)
    \/ \E driver_fails \in BOOLEAN, order \in Orderings(DistinctCorpNames(store)) :
           CallGetAllCompanyNames(driver_fails, order)

SpecFaults == InitFaults /\ [][NextFaults]_vars

(* ---------------------------------------------------------------------- *)
(* PostgresRM: the synchronous adapter                                      *)
(* ---------------------------------------------------------------------- *)
MaxQueries == 2     \* longest list of queries handed to forward

MaxRMUsage == 3     \* most queries handed to one PostgresRM

DefaultK == 10              \* PostgresRM.__init__(k=10)
DefaultMinScore == 50       \* PostgresRM.__init__(min_score=0.5), in hundredths

\* The parameters of VectorSearchService.__init__ without a default
\* (vector_search_service.py, lines 30-36).
ServiceParams ==
    {"source_material_repo", "embedding_service", "query_analyzer", "reranker_service"}

\* Calling VectorSearchService(**kwargs): a missing argument is a TypeError.
NewVectorSearchService(kwargs) ==
    IF ServiceParams \subseteq kwargs
    THEN Returned(kwargs)
    ELSE Raised("TypeError", "")

\* `async with self.db_engine.get_session() as session`.  The engine
\* connects either when the session is handed out (eager_connect) or at the
\* first query; with the store down an eager engine raises here.
GetSession(store_down, eager_connect) ==
    IF store_down /\ eager_connect
    THEN Raised("DriverError", "")
    ELSE Returned("session")

\* res.get('score', 0.0)
ScoreOf(res) == IF "score" \in DOMAIN res THEN res.score ELSE 0

\* The loop of lines 113-131 with the `continue` of line 120 in force:
\* results below min_score are left out.
RECURSIVE FormatResults_DropsLowScores(_, _)
FormatResults_DropsLowScores(raw_results, min_score) ==
    IF raw_results = << >> THEN << >>
    ELSE LET res == Head(raw_results)
             rest == FormatResults_DropsLowScores(Tail(raw_results), min_score)
         IN  IF ScoreOf(res) < min_score
             THEN rest
             ELSE <<[content |-> << >>, snippets |-> << >>, title |-> << >>,
                     url |-> IF "url" \in DOMAIN res THEN res.url ELSE <<"local", "db">>,
                     description |-> << >>, score |-> ScoreOf(res),
                     source |-> "internal"]>> \o rest

\* Lines 110-138: the results in STORM's format.  min_score only counts.
FormatResults(raw_results, min_score) ==
    [n \in 1..Len(raw_results) |->
        LET res == raw_results[n]
            content == IF "content" \in DOMAIN res THEN res.content ELSE << >>
        IN  [content |-> content,
             snippets |-> <<content>>,
             title |-> IF "title" \in DOMAIN res THEN res.title ELSE <<"No Title">>,
             url |-> IF "url" \in DOMAIN res THEN res.url ELSE <<"local", "db">>,
             description |-> IF "title" \in DOMAIN res THEN res.title ELSE << >>,
             score |-> ScoreOf(res),
             source |-> "internal"]]

\* Lines 106-138 of _search_async: what it returns once search has run,
\* inside the session that was opened.
FinishSearch(run, min_score) ==
    [calls |-> <<[op |-> "get_session", ok |-> TRUE], [op |-> "VectorSearchService"]>>
                  \o run.calls \o <<[op |-> "session_close"]>>,
     outcome |-> IF run.outcome.status = "raised"
                 THEN run.outcome
                 ELSE Returned(FormatResults(run.outcome.value, min_score))]

\* _search_async with a session that is closed on the normal path only.
SearchAsync_LeaksOnError(st, query, k, min_score, env) ==
    LET session == GetSession(env.store_down, env.eager_connect)
        search_service ==
            NewVectorSearchService({"source_material_repo", "embedding_service",
                                    "query_analyzer"})
    IN  IF session.status = "raised"
        THEN [calls |-> <<[op |-> "get_session", ok |-> FALSE]>>, outcome |-> session]
        ELSE [calls |-> <<[op |-> "get_session", ok |-> TRUE],
                          [op |-> "VectorSearchService"]>>,
              outcome |-> search_service]

\* PostgresRM._search_async: the session events and the outcome.  The
\* service is built with the three keyword arguments of lines 100-104.
SearchAsync(st, query, k, min_score, env) ==
    LET session == GetSession(env.store_down, env.eager_connect)
        search_service ==
            NewVectorSearchService({"source_material_repo", "embedding_service",
                                    "query_analyzer"})
        fault == IF env.store_down THEN "search_by_vector" ELSE env.fault
    IN  IF session.status = "raised"
        THEN [calls |-> <<[op |-> "get_session", ok |-> FALSE]>>, outcome |-> session]
        ELSE IF search_service.status = "raised"
        THEN [calls |-> <<[op |-> "get_session", ok |-> TRUE],
                          [op |-> "VectorSearchService"],
                          [op |-> "session_close"]>>,
              outcome |-> search_service]
        ELSE FinishSearch(Search(st, << >>, query, k, TRUE, TRUE, env.llm, fault),
                          min_score)

\* The loop of forward (lines 76-82): the calls made and the outcome, which
\* is the collected results or the first exception.
RECURSIVE ForwardLoop(_, _, _, _, _, _, _)

\* Lines 79-82: `one` is what _search_async did for the first query.
ForwardStep(st, queries, search_k, min_score, env, calls, collected_results, one) ==
    IF one.outcome.status = "raised"
    THEN [calls |-> calls \o one.calls, outcome |-> one.outcome]
    ELSE ForwardLoop(st, Tail(queries), search_k, min_score, env,
                     calls \o one.calls, collected_results \o one.outcome.value)

ForwardLoop(st, queries, search_k, min_score, env, calls, collected_results) ==
    IF queries = << >>
    THEN [calls |-> calls, outcome |-> Returned(collected_results)]
    ELSE ForwardStep(st, queries, search_k, min_score, env, calls, collected_results,
                     SearchAsync(st, Head(queries), search_k, min_score, env))

\* [query_or_queries] if isinstance(query_or_queries, str) else query_or_queries
Normalize(query_or_queries) ==
    IF query_or_queries.type = "str"
    THEN <<query_or_queries.value>>
    ELSE query_or_queries.value

\* The handler of line 86 without its `return []`: the exception goes on.
ExceptReturnsEmpty_Reraises(usage, run) ==
    [calls |-> run.calls,
     usage |-> usage,
     caught |-> IF run.outcome.status = "raised" THEN Some(run.outcome.error) ELSE None,
     outcome |-> run.outcome]

\* Lines 72-91: `except Exception` returns [], else the collected results.
\* `caught` is the exception the handler got, if any.
ExceptReturnsEmpty(usage, run) ==
    [calls |-> run.calls,
     usage |-> usage,
     caught |-> IF run.outcome.status = "raised" THEN Some(run.outcome.error) ELSE None,
     outcome |-> IF run.outcome.status = "raised" THEN Returned(<< >>) ELSE run.outcome]

\* PostgresRM.forward (lines 51-91).
Forward(st, query_or_queries, k, self_k, min_score, env) ==
    ExceptReturnsEmpty(
        Len(Normalize(query_or_queries)),
        ForwardLoop(st, Normalize(query_or_queries), IF k # None THEN k[1] ELSE self_k,
                    min_score, env, << >>, << >>))

QueryArgs ==
    {[type |-> "str", value |-> q] : q \in Queries}
        \cup {[type |-> "list", value |-> qs] : qs \in SeqUpTo(Queries, MaxQueries)}

\* PostgresRM.__init__
InitRM ==
    /\ store \in TextStores
    /\ db_companies = << >>
    /\ ret = NoCall
    /\ NoRerank
    /\ rmUsage = 0
    /\ rmSessions = 0
    /\ NoHybrid
    /\ NoThreads

Opened(calls) == Len(SelectSeq(calls, LAMBDA c : c.op = "get_session" /\ c.ok))
Closed(calls) == Len(SelectSeq(calls, LAMBDA c : c.op = "session_close"))

\* The state after forward has run.  usage_before and caught are history:
\* the counter when forward was entered and the exception it handled.
ForwardReturns(query_or_queries, k, env, run) ==
    /\ ret' = [op |-> "forward",
               args |-> [query_or_queries |-> query_or_queries, k |-> k],
               env |-> env,
               calls |-> run.calls,
               analysis |-> None,
               outcome |-> run.outcome,
               usage_before |-> rmUsage,
               caught |-> run.caught]
    /\ rmUsage' = rmUsage + run.usage
    /\ rmSessions' = rmSessions + Opened(run.calls) - Closed(run.calls)

\* PostgresRM.forward
CallForward(query_or_queries, k, env) ==
    /\ rmUsage + Len(Normalize(query_or_queries)) <= MaxRMUsage
    /\ ForwardReturns(query_or_queries, k, env,
                      Forward(store, query_or_queries, k, DefaultK, DefaultMinScore, env))
    /\ UNCHANGED <<store, db_companies, rerankVars, hyVars, thVars>>

NextRM ==
    \E query_or_queries \in QueryArgs, k \in {None} \cup {Some(n) : n \in 1..MaxTopK},
       store_down \in BOOLEAN, eager_connect \in BOOLEAN :
        CallForward(query_or_queries, k,
                    [store_down |-> store_down, eager_connect |-> eager_connect,
                     llm |-> None, fault |-> "none"])

SpecRM == InitRM /\ [][NextRM]_vars

(* ---------------------------------------------------------------------- *)
(* The formatting loop of _search_async, for every list of results          *)
(* ---------------------------------------------------------------------- *)
MinScores == {-100, 0, DefaultMinScore, 100}

\* A result of search, with or without a title and a score.
RawResult(n, title, score) ==
    [content |-> <<n>>, url |-> <<"dart", "report", 1, "chunk", n>>]
        @@ (IF title THEN [title |-> <<"section", n>>] ELSE << >>)
        @@ (IF score = None THEN << >> ELSE [score |-> score[1]])

RawResultLists ==
    {[n \in 1..Len(p) |-> RawResult(n, p[n][1], p[n][2])] :
        p \in SeqUpTo(BOOLEAN \X ({None} \cup {Some(s) : s \in RerankScores}), MaxHits)}

InitFormat ==
    /\ NoService
    /\ NoRerank
    /\ NoRM
    /\ NoHybrid
    /\ NoThreads

\* Lines 109-138 of _search_async on the list search returned.
CallFormatResults(raw_results, min_score) ==
    /\ ret.op = "none"
    /\ ret' = [op |-> "format_results",
               args |-> [raw_results |-> raw_results, min_score |-> min_score],
               env |-> << >>, calls |-> << >>, analysis |-> None,
               outcome |-> Returned(FormatResults(raw_results, min_score))]
    /\ UNCHANGED <<store, db_companies, rerankVars, rmVars, hyVars, thVars>>

NextFormat ==
    \E raw_results \in RawResultLists, min_score \in MinScores :
        CallFormatResults(raw_results, min_score)

SpecFormat == InitFormat /\ [][NextFormat]_vars

(* ---------------------------------------------------------------------- *)
(* HybridRM: internal and external retrievers merged                        *)
(* ---------------------------------------------------------------------- *)
MaxSide == 2        \* longest list one retriever returns for one query
MaxUsage == 4       \* most queries submitted between two usage resets

DefaultInternalK == 3       \* HybridRM.__init__(internal_k=3)
DefaultExternalK == 7       \* HybridRM.__init__(external_k=7)

\* The 'url' of a returned dict: no such key, '' or a URL.
Urls == {"", "u1", "u2"}
UrlOptions == {None} \cup {Some(u) : u \in Urls}

\* The dict a retriever returns n-th for the qi-th query.
SideItem(side, qi, n, url) ==
    IF url = None
    THEN [content |-> <<side, qi, n>>]
    ELSE [content |-> <<side, qi, n>>, url |-> url[1]]

SideItems(side, qi, urls) == [n \in 1..Len(urls) |-> SideItem(side, qi, n, urls[n])]

\* Lines 212-213 and 227-228: the value a retriever returned, as a list.
Standardize(res) ==
    IF "passages" \in DOMAIN res THEN res.passages
    ELSE IF res.type = "list" THEN res.list
    ELSE IF res.type = "dict" THEN <<res.dict>>
    ELSE << >>

\* The tagging that marks every item internal.
Tag_AllInternal(items, source) ==
    [n \in 1..Len(items) |-> [source |-> "internal"] @@ items[n]]

\* item['source'] = source, for every item (lines 216-217, 231-232).
Tag(items, source) == [n \in 1..Len(items) |-> [source |-> source] @@ items[n]]

\* One side without its try/except: the exception of the retriever escapes.
SideResults_Propagates(reply, k, source) ==
    IF reply.status = "raised"
    THEN reply
    ELSE Returned(Tag(Limit(Standardize(reply.value), k), source))

\* Lines 206-220 and 223-235: the capped, tagged results of one side; an
\* exception of the retriever is logged and leaves the side empty.
SideResults(reply, k, source) ==
    IF reply.status = "raised"
    THEN Returned(<< >>)
    ELSE Returned(Tag(Limit(Standardize(reply.value), k), source))

\* item.get('url', '')
ItemUrl(item) == IF "url" \in DOMAIN item THEN item.url ELSE ""

\* The body of the merge loops with every item kept.
AddItem_KeepsAll(item, acc) ==
    [seen_urls |-> acc.seen_urls \cup {ItemUrl(item)},
     merged_results |-> Append(acc.merged_results, item)]

\* The body of the merge loops (lines 243-248, 252-257).
AddItem(item, acc) ==
    IF ItemUrl(item) # "" /\ ItemUrl(item) \notin acc.seen_urls
    THEN [seen_urls |-> acc.seen_urls \cup {ItemUrl(item)},
          merged_results |-> Append(acc.merged_results, item)]
    ELSE IF ItemUrl(item) = ""
    THEN [seen_urls |-> acc.seen_urls,
          merged_results |-> Append(acc.merged_results, item)]
    ELSE acc

RECURSIVE AddAll(_, _)
AddAll(items, acc) ==
    IF items = << >> THEN acc ELSE AddAll(Tail(items), AddItem(Head(items), acc))

\* The merge with the external results first.
MergeAndDeduplicate_ExternalFirst(internal_results, external_results) ==
    AddAll(internal_results,
           AddAll(external_results,
                  [seen_urls |-> {}, merged_results |-> << >>])).merged_results

\* Lines 238-257: internal first, then external.
MergeAndDeduplicate(internal_results, external_results) ==
    AddAll(external_results,
           AddAll(internal_results,
                  [seen_urls |-> {}, merged_results |-> << >>])).merged_results

\* The block of one query, from what the two sides gave.
BlockOf(query, internal_k, internal, external) ==
    [calls |-> <<[op |-> "internal_rm.forward", query |-> query, k |-> internal_k]>>
                  \o (IF internal.status = "raised"
                      THEN << >>
                      ELSE <<[op |-> "external_rm.forward", query |-> query]>>),
     outcome |-> IF internal.status = "raised" THEN internal
                 ELSE IF external.status = "raised" THEN external
                 ELSE Returned(MergeAndDeduplicate(internal.value, external.value))]

\* Lines 203-257: one pass of the loop of HybridRM.forward.  reply is what
\* the two retrievers do for this query.
QueryBlock(query, reply, cfg) ==
    BlockOf(query, cfg.internal_k,
            SideResults(reply.internal, cfg.internal_k, "internal"),
            SideResults(reply.external, cfg.external_k, "external"))

RECURSIVE HybridLoop(_, _, _, _, _, _)

\* Line 259: final_results.extend(merged_results), and the next query.
HybridStep(queries, qi, replies, cfg, calls, final_results, block) ==
    IF block.outcome.status = "raised"
    THEN [calls |-> calls \o block.calls, outcome |-> block.outcome]
    ELSE HybridLoop(queries, qi + 1, replies, cfg, calls \o block.calls,
                    final_results \o block.outcome.value)

\* Lines 202-261: the loop over the queries.
HybridLoop(queries, qi, replies, cfg, calls, final_results) ==
    IF qi > Len(queries)
    THEN [calls |-> calls, outcome |-> Returned(final_results)]
    ELSE HybridStep(queries, qi, replies, cfg, calls, final_results,
                    QueryBlock(queries[qi], replies[qi], cfg))

\* HybridRM.forward (lines 189-261).
HybridForward(query_or_queries, replies, cfg) ==
    [usage |-> Len(Normalize(query_or_queries))]
        @@ HybridLoop(Normalize(query_or_queries), 1, replies, cfg, << >>, << >>)

\* What one retriever does for one query: it raises, or returns a list, an
\* object with .passages, a single dict or None.
SidePlans ==
    {[kind |-> "raise", urls |-> << >>], [kind |-> "NoneType", urls |-> << >>],
     [kind |-> "object", urls |-> <<Some("u1")>>],
     [kind |-> "dict", urls |-> <<Some("u1")>>]}
        \cup {[kind |-> "list", urls |-> u] : u \in SeqUpTo(UrlOptions, MaxSide)}

\* The plans used for lists of queries.
ListSidePlans ==
    {[kind |-> "raise", urls |-> << >>], [kind |-> "list", urls |-> << >>],
     [kind |-> "list", urls |-> <<Some("u1")>>],
     [kind |-> "list", urls |-> <<Some("u1"), None>>]}

\* The plans used where only the counters matter.
UsageSidePlans ==
    {[kind |-> "raise", urls |-> << >>], [kind |-> "list", urls |-> <<Some("u1")>>]}

\* What retriever `side` does for the qi-th query under a plan.
SideReply(side, qi, plan) ==
    IF plan.kind = "raise" THEN Raised("SearchError", "")
    ELSE IF plan.kind = "list"
    THEN Returned([type |-> "list", list |-> SideItems(side, qi, plan.urls)])
    ELSE IF plan.kind = "object"
    THEN Returned([type |-> "object", passages |-> SideItems(side, qi, plan.urls)])
    ELSE IF plan.kind = "dict"
    THEN Returned([type |-> "dict", dict |-> SideItem(side, qi, 1, plan.urls[1])])
    ELSE Returned([type |-> "NoneType"])

Replies(plans) ==
    [qi \in 1..Len(plans) |->
        [internal |-> SideReply("i", qi, plans[qi].internal),
         external |-> SideReply("e", qi, plans[qi].external)]]

PlanPairs(S) == {[internal |-> a, external |-> b] : a \in S, b \in S}

HybridQueryLists == SeqUpTo({S_q}, MaxQueries)

\* HybridRM.__init__ over two retrievers.
HybridConfigs(ks, exposes) ==
    {[internal_k |-> i, external_k |-> e, external_has_usage |-> h] :
        i \in ks, e \in ks, h \in exposes}

InitHybrid ==
    /\ NoService
    /\ NoRerank
    /\ NoRM
    /\ hyConfig \in HybridConfigs(0..MaxSide, {TRUE})
    /\ hyUsage = 0
    /\ extUsage = 0
    /\ hySubmitted = 0
    /\ NoThreads

\* The calls of one retriever among those a forward made.
CountCalls(calls, op) == Len(SelectSeq(calls, LAMBDA c : c.op = op))

\* The state after HybridRM.forward has run: self.usage (line 198), the
\* counter of PostgresRM (its line 67) and that of the external retriever.
HybridReturns(query_or_queries, replies, run) ==
    /\ ret' = [op |-> "hybrid_forward",
               args |-> [query_or_queries |-> query_or_queries],
               env |-> [replies |-> replies],
               calls |-> run.calls,
               analysis |-> None,
               outcome |-> run.outcome]
    /\ hyUsage' = hyUsage + run.usage
    /\ rmUsage' = rmUsage + CountCalls(run.calls, "internal_rm.forward")
    /\ extUsage' = extUsage + CountCalls(run.calls, "external_rm.forward")
    /\ hySubmitted' = hySubmitted + (IF query_or_queries.type = "str"
                                     THEN 1
                                     ELSE Len(query_or_queries.value))

\* HybridRM.forward
CallHybridForward(query_or_queries, plans) ==
    /\ HybridReturns(query_or_queries, Replies(plans),
                     HybridForward(query_or_queries, Replies(plans), hyConfig))
    /\ UNCHANGED <<store, db_companies, rerankVars, rmSessions, hyConfig, thVars>>

\* The usage report without the counters of the wrapped retrievers.
UsageReport_HybridOnly(usage, internal_usage, external_usage) == "HybridRM" :> usage

\* The usage report built by get_usage_and_reset (lines 183-187).
UsageReport(usage, internal_usage, external_usage) ==
    external_usage @@ internal_usage @@ ("HybridRM" :> usage)

\* HybridRM.get_usage_and_reset, over PostgresRM.get_usage_and_reset
CallGetUsageAndReset ==
    /\ ret' = [op |-> "get_usage_and_reset",
               args |-> << >>,
               env |-> [submitted |-> hySubmitted, internal |-> rmUsage,
                        external |-> extUsage],
               calls |-> << >>,
               analysis |-> None,
               outcome |-> Returned(UsageReport(
                               hyUsage,
                               "PostgresRM" :> rmUsage,
                               IF hyConfig.external_has_usage
                               THEN "SerperRM" :> extUsage
                               ELSE << >>))]
    /\ hyUsage' = 0
    /\ rmUsage' = 0
    /\ extUsage' = IF hyConfig.external_has_usage THEN 0 ELSE extUsage
    /\ hySubmitted' = 0
    /\ UNCHANGED <<store, db_companies, rerankVars, rmSessions, hyConfig, thVars>>

NextHybrid ==
    /\ ret.op = "none"
    /\ \/ \E plan \in PlanPairs(SidePlans) :
             CallHybridForward([type |-> "str", value |-> S_q], <<plan>>)
       \/ \E queries \in HybridQueryLists :
             \E plans \in [1..Len(queries) -> PlanPairs(ListSidePlans)] :
                 CallHybridForward([type |-> "list", value |-> queries], plans)

SpecHybrid == InitHybrid /\ [][NextHybrid]_vars

InitHybridUsage ==
    /\ NoService
    /\ NoRerank
    /\ NoRM
    /\ hyConfig \in HybridConfigs({DefaultInternalK, DefaultExternalK}, BOOLEAN)
    /\ hyUsage = 0
    /\ extUsage = 0
    /\ hySubmitted = 0
    /\ NoThreads

NextHybridUsage ==
    \/ \E plan \in PlanPairs(UsageSidePlans) :
          /\ hySubmitted + 1 <= MaxUsage /\ extUsage + 1 <= MaxUsage
          /\ CallHybridForward([type |-> "str", value |-> S_q], <<plan>>)
    \/ \E queries \in HybridQueryLists :
          /\ hySubmitted + Len(queries) <= MaxUsage
          /\ extUsage + Len(queries) <= MaxUsage
          /\ \E plans \in [1..Len(queries) -> PlanPairs(UsageSidePlans)] :
                CallHybridForward([type |-> "list", value |-> queries], plans)
    \/ CallGetUsageAndReset

SpecHybridUsage == InitHybridUsage /\ [][NextHybridUsage]_vars

(* ---------------------------------------------------------------------- *)
(* CompanyEntityResolver on its own                                         *)
(* ---------------------------------------------------------------------- *)
MaxRoster == 2      \* longest roster installed

S_AbcPadded == <<" ", "A", "b", "c">>
S_NaVer == <<"N", "a", " ", "v", "e", "r">>
S_Space == <<" ">>

\* The names a roster may hold, and the queries resolved against it.
RosterNames == {S_NAVER, S_naver, S_Abc, S_Abd, S_AbcPadded, EmptyStr}
Rosters == SeqUpTo(RosterNames, MaxRoster)
ResolveQueries ==
    {EmptyStr, S_Space, S_naver, S_NaVer, S_NAVER, S_Abc, S_AbcPadded, S_abc, S_bd}
Thresholds == {0, 6500, 9000, 10001}

\* CompanyEntityResolver.__init__(db_company_list): None gives an empty roster.
InitResolver ==
    /\ store = << >>
    /\ \E db_company_list \in {None} \cup {Some(r) : r \in Rosters} :
          db_companies = IF db_company_list = None \/ db_company_list[1] = << >>
                         THEN << >>
                         ELSE db_company_list[1]
    /\ ret = NoCall
    /\ NoRerank
    /\ NoRM
    /\ NoHybrid
    /\ NoThreads

\* CompanyEntityResolver.update_company_list
CallUpdateCompanyList(new_list) ==
    /\ ret.op = "none"
    /\ db_companies' = new_list
    /\ ret' = [op |-> "update_company_list", args |-> [new_list |-> new_list],
               env |-> << >>, calls |-> << >>, analysis |-> None,
               outcome |-> Returned(None)]
    /\ UNCHANGED <<store, rerankVars, rmVars, hyVars, thVars>>

\* CompanyEntityResolver.resolve
CallResolve(query, threshold) ==
    /\ ret.op \in {"none", "update_company_list"}
    /\ ret' = [op |-> "resolve", args |-> [query |-> query, threshold |-> threshold],
               env |-> [db_companies |-> db_companies], calls |-> << >>,
               analysis |-> None,
               outcome |-> Returned(Resolve(db_companies, query, threshold))]
    /\ UNCHANGED <<store, db_companies, rerankVars, rmVars, hyVars, thVars>>

NextResolver ==
    \/ \E new_list \in Rosters : CallUpdateCompanyList(new_list)
    \/ \E query \in ResolveQueries, threshold \in Thresholds :
          CallResolve(query, threshold)
    \/ \E n \in 1..Len(db_companies) : CallResolve(db_companies[n], 6500)

SpecResolver == InitResolver /\ [][NextResolver]_vars

(* ---------------------------------------------------------------------- *)
(* HybridRM.usage under several threads                                     *)
(* `self.usage += len(queries)` is a read of the attribute followed by a    *)
(* write; so is `usage = self.usage; self.usage = 0`.  Nothing in the class *)
(* holds a lock, so another thread may run between the two.                 *)
(* ---------------------------------------------------------------------- *)
MaxThreads == 2     \* threads calling the same HybridRM

Threads == 1..MaxThreads

Idle == [pc |-> "idle", usage |-> 0, n |-> 0]

InitUsageRace ==
    /\ NoService
    /\ NoRerank
    /\ NoRM
    /\ hyConfig = << >>
    /\ hyUsage = 0
    /\ extUsage = 0
    /\ hySubmitted = 0
    /\ threads = [t \in Threads |-> Idle]
    /\ reported = 0
    /\ reader = NoReader

\* forward, line 198, first half: self.usage is read for the addition.
LoadUsage(t, n) ==
    /\ threads[t].pc = "idle"
    /\ hySubmitted + n <= MaxUsage
    /\ threads' = [threads EXCEPT ![t] = [pc |-> "forward", usage |-> hyUsage, n |-> n]]
    /\ hySubmitted' = hySubmitted + n
    /\ UNCHANGED <<serviceVars, rerankVars, rmVars, hyConfig, hyUsage, extUsage,
                   reported, reader>>

\* forward, line 198, second half: the sum is written to self.usage.
StoreUsage(t) ==
    /\ threads[t].pc = "forward"
    /\ hyUsage' = threads[t].usage + threads[t].n
    /\ threads' = [threads EXCEPT ![t] = Idle]
    /\ UNCHANGED <<serviceVars, rerankVars, rmVars, hyConfig, extUsage, hySubmitted,
                   reported, reader>>

\* get_usage_and_reset, line 175: usage = self.usage
ReadUsage(t) ==
    /\ threads[t].pc = "idle"
    /\ threads' = [threads EXCEPT ![t] = [pc |-> "reset", usage |-> hyUsage, n |-> 0]]
    /\ UNCHANGED <<serviceVars, rerankVars, rmVars, hyVars, reported, reader>>

\* get_usage_and_reset, lines 176-187: self.usage = 0, and `usage` is
\* returned under 'HybridRM'.
ZeroUsage(t) ==
    /\ threads[t].pc = "reset"
    /\ hyUsage' = 0
    /\ reported' = reported + threads[t].usage
    /\ threads' = [threads EXCEPT ![t] = Idle]
    /\ UNCHANGED <<serviceVars, rerankVars, rmVars, hyConfig, extUsage, hySubmitted,
                   reader>>

NextUsageRace ==
    \/ \E t \in Threads, n \in 1..MaxQueries : LoadUsage(t, n)
    \/ \E t \in Threads : StoreUsage(t)
    \/ \E t \in Threads : ReadUsage(t)
    \/ \E t \in Threads : ZeroUsage(t)

SpecUsageRace == InitUsageRace /\ [][NextUsageRace]_vars

(* ---------------------------------------------------------------------- *)
(* resolve running while update_company_list replaces the roster            *)
(* resolve reads self.db_companies at lines 83, 89, 98 and 107; the refresh *)
(* is the one assignment of line 68.                                        *)
(* ---------------------------------------------------------------------- *)
RaceRosters == SeqUpTo({S_naver, S_NAVER, S_Abc}, MaxRoster)
RaceQueries == {EmptyStr, S_naver, S_abc}

InitResolverRace ==
    /\ store = << >>
    /\ db_companies \in RaceRosters
    /\ ret = NoCall
    /\ NoRerank
    /\ NoRM
    /\ NoHybrid
    /\ threads = << >>
    /\ reported = 0
    /\ reader = [pc |-> "idle"]

\* The reader has returned `result`.
ReaderReturns(result) == [reader EXCEPT !.pc = "done"] @@ [result |-> result]

\* resolve, lines 83-86.  `entered_with` is history: the roster at the call.
EnterResolve(query, threshold) ==
    /\ reader.pc = "idle"
    /\ reader' =
          LET entered == [pc |-> "exact", query |-> query, threshold |-> threshold,
                          clean_query |-> Strip(query), entered_with |-> db_companies]
          IN  IF query = EmptyStr \/ db_companies = << >>
              THEN [entered EXCEPT !.pc = "done"] @@ [result |-> None]
              ELSE entered
    /\ UNCHANGED <<serviceVars, rerankVars, rmVars, hyVars, threads, reported>>

\* resolve, lines 89-90
ExactMatch ==
    /\ reader.pc = "exact"
    /\ reader' = IF reader.clean_query \in SeqToSet(db_companies)
                 THEN ReaderReturns(Some(reader.clean_query))
                 ELSE [reader EXCEPT !.pc = "synonym"]
    /\ UNCHANGED <<serviceVars, rerankVars, rmVars, hyVars, threads, reported>>

\* resolve, lines 94-100
SynonymMatch ==
    /\ reader.pc = "synonym"
    /\ reader' =
          LET normalized_key == Lower(RemoveSpaces(reader.clean_query))
              synonyms == {e \in SYNONYM_MAP :
                              e[1] = normalized_key /\ e[2] \in SeqToSet(db_companies)}
          IN  IF synonyms # {}
              THEN ReaderReturns(Some((CHOOSE e \in synonyms : TRUE)[2]))
              ELSE [reader EXCEPT !.pc = "fuzzy"]
    /\ UNCHANGED <<serviceVars, rerankVars, rmVars, hyVars, threads, reported>>

\* resolve, lines 105-118
FuzzyMatch ==
    /\ reader.pc = "fuzzy"
    /\ reader' = ReaderReturns(ExtractOne(reader.clean_query, db_companies,
                                          reader.threshold))
    /\ UNCHANGED <<serviceVars, rerankVars, rmVars, hyVars, threads, reported>>

\* update_company_list on another thread, once, before resolve has returned.
Refresh(new_list) ==
    /\ ret.op = "none"
    /\ reader.pc # "done"
    /\ db_companies' = new_list
    /\ ret' = [op |-> "update_company_list", args |-> [new_list |-> new_list],
               env |-> << >>, calls |-> << >>, analysis |-> None,
               outcome |-> Returned(None)]
    /\ UNCHANGED <<store, rerankVars, rmVars, hyVars, thVars>>

NextResolverRace ==
    \/ \E query \in RaceQueries : EnterResolve(query, 6500)
    \/ ExactMatch
    \/ SynonymMatch
    \/ FuzzyMatch
    \/ \E new_list \in RaceRosters : Refresh(new_list)

SpecResolverRace == InitResolverRace /\ [][NextResolverRace]_vars

(* ---------------------------------------------------------------------- *)
(* Properties of _rerank_results                                            *)
(* ---------------------------------------------------------------------- *)
\* A company label is on target: empty, 'unknown company', or it contains one
\* of the resolved names, compared case-insensitively.
OnTarget(company, resolved) ==
    \/ company = EmptyStr
    \/ Lower(company) = S_unknown_company
    \/ \E i \in 1..Len(resolved) : Contains(Lower(company), Lower(resolved[i]))

InputIds(docs) == {docs[i].url : i \in 1..Len(docs)}

\* C1: factoid membership law. For intent = factoid, is_competitor_query =
\* false and a non-empty resolved list, every hit in the list returned by
\* _rerank_results has an empty/unknown company label or a label matching one
\* of the targets; no off-target hit is in the output.
C1_FactoidMembership ==
    (rrDone /\ rrAnalysis.intent = "factoid" /\ ~rrAnalysis.is_competitor_query
            /\ rrResolved # << >>)
        => \A i \in 1..Len(rrOut) : OnTarget(rrOut[i]._company_name, rrResolved)

\* A factoid call that dropped an off-target hit and kept an on-target one.
W_C1_FactoidDropped ==
    /\ rrDone /\ rrAnalysis.intent = "factoid" /\ ~rrAnalysis.is_competitor_query
    /\ rrResolved # << >>
    /\ \E i \in 1..Len(rrResults) : ~OnTarget(rrResults[i]._company_name, rrResolved)
    /\ Len(rrOut) = 1 /\ Len(rrResults) = 2

\* C2: competitor law. When is_competitor_query = true, _rerank_results
\* drops no hit, for every intent and target list: the output is a
\* permutation of the input hits and every off-target hit keeps its score.
C2_CompetitorKeepsAll ==
    (rrDone /\ rrAnalysis.is_competitor_query)
        => /\ Len(rrOut) = Len(rrResults)
           /\ InputIds(rrOut) = InputIds(rrResults)
           /\ \A i \in 1..Len(rrOut) :
                 LET doc == rrOut[i]
                 IN  /\ doc._company_name = rrResults[doc.url]._company_name
                     /\ ~OnTarget(doc._company_name, rrResolved)
                            => doc.score = rrResults[doc.url].score

\* A competitor call with intent factoid whose input has an off-target hit.
W_C2_CompetitorOffTarget ==
    /\ rrDone /\ rrAnalysis.is_competitor_query /\ rrAnalysis.intent = "factoid"
    /\ rrResolved # << >>
    /\ \E i \in 1..Len(rrOut) :
          /\ ~OnTarget(rrOut[i]._company_name, rrResolved)
          /\ rrOut[i].score = rrResults[rrOut[i].url].score
    /\ \E i \in 1..Len(rrOut) : rrOut[i].score # rrResults[rrOut[i].url].score

(* ---------------------------------------------------------------------- *)
(* Properties of search and of the repository                               *)
(* ---------------------------------------------------------------------- *)
SearchReturned == ret.op = "search" /\ ret.outcome.status = "returned"

\* The calls of one capability among those a search made.
CallsOf(op) == {n \in 1..Len(ret.calls) : ret.calls[n].op = op}

\* What the analysis of the last search is, from what the model call did.
ExpectedAnalysis ==
    IF ret.env.llm = None
    THEN [intent |-> "general", target_companies |-> << >>,
          is_competitor_query |-> FALSE, keywords |-> <<ret.args.query>>]
    ELSE ret.env.llm[1]

\* C3: filter strategy of search(query, top_k). If the analysis has
\* is_competitor_query = true the store's similarity search is called with no
\* company filter (None) and a pool of exactly 2 * top_k; otherwise with the
\* list of resolved company names and a pool of exactly top_k. In both cases
\* the chunk type filter is 'text'.
C3_FilterStrategy ==
    ret.op = "search" =>
        \A n \in CallsOf("search_by_vector") :
            LET call == ret.calls[n]
                analysis == ExpectedAnalysis
            IN  /\ call.chunk_type_filter = Some("text")
                /\ analysis.is_competitor_query
                      => /\ call.company_filter_list = None
                         /\ call.top_k = 2 * ret.args.top_k
                /\ ~analysis.is_competitor_query
                      => /\ call.company_filter_list =
                               Some(ResolveAll(db_companies, analysis.target_companies))
                         /\ call.top_k = ret.args.top_k

\* A competitor search with top_k = 2 that asked the store for 4 rows of any
\* company, although the analysis named a company.
W_C3_CompetitorPool ==
    /\ SearchReturned
    /\ ret.args.top_k = 2
    /\ ret.env.llm # None /\ ret.env.llm[1].is_competitor_query
    /\ ret.env.llm[1].target_companies = <<S_naver>>
    /\ \E n \in CallsOf("search_by_vector") :
          ret.calls[n].top_k = 4 /\ ret.calls[n].company_filter_list = None
    /\ ret.outcome.value # << >>

\* The content of a result without the source tag and the legend note.
Pieces(doc) ==
    SelectSeq(doc.content, LAMBDA p : p.kind \in {"raw_content", "table_header"})

\* The nearest fragment after h in its report that is not noise.
NearestAfter(h) ==
    {i \in DOMAIN store :
        /\ store[i].report_id = h.report_id
        /\ store[i].chunk_type # "noise_merged"
        /\ store[i].sequence_order > h.sequence_order
        /\ \A j \in DOMAIN store :
              (/\ store[j].report_id = h.report_id
               /\ store[j].chunk_type # "noise_merged"
               /\ store[j].sequence_order > h.sequence_order)
                  => store[i].sequence_order <= store[j].sequence_order}

\* C4: forward-lookup attachment. For each text hit h returned by search, a
\* table's content is appended to h's content if and only if the nearest
\* fragment after h in the same report that is not noise_merged is a table
\* and its sequence_order exceeds h's by at most 5; what is appended is the
\* content of that fragment only.
C4_ForwardLookup ==
    SearchReturned =>
        \A n \in 1..Len(ret.outcome.value) :
            LET doc == ret.outcome.value[n]
                h == store[doc.url[5]]
                attachable ==
                    {i \in NearestAfter(h) :
                        /\ store[i].chunk_type = "table"
                        /\ store[i].sequence_order - h.sequence_order <= 5}
            IN  /\ h.chunk_type = "text"
                /\ attachable = {}
                      => Pieces(doc) = <<[kind |-> "raw_content", frag |-> h.id]>>
                /\ attachable # {}
                      => \E i \in attachable :
                            Pieces(doc) = <<[kind |-> "raw_content", frag |-> h.id],
                                            [kind |-> "table_header"],
                                            [kind |-> "raw_content", frag |-> i]>>

\* A search where a table five positions after the hit was attached across a
\* fragment in between, and another hit got nothing attached.
W_C4_AttachedAcross ==
    /\ SearchReturned
    /\ \E n \in 1..Len(ret.outcome.value) :
          LET doc == ret.outcome.value[n]
          IN  /\ Len(Pieces(doc)) = 3
              /\ Pieces(doc)[3].frag = doc.url[5] + 2
              /\ store[doc.url[5] + 2].sequence_order
                    - store[doc.url[5]].sequence_order = 5
    /\ \E n \in 1..Len(ret.outcome.value) : Len(Pieces(ret.outcome.value[n])) = 1

\* C5: noise exclusion. No fragment with chunk_type = noise_merged is
\* returned by search_by_vector, by get_nearest_next_chunk or by
\* get_context_window, whatever the store and the arguments, and no
\* noise_merged content appears, as a hit or attached, in a result of search.
C5_NoNoise ==
    ret.outcome.status = "returned" =>
        /\ ret.op = "search_by_vector"
              => \A n \in 1..Len(ret.outcome.value) :
                    ret.outcome.value[n].material.chunk_type # "noise_merged"
        /\ ret.op = "get_nearest_next_chunk"
              => \A n \in 1..Len(ret.outcome.value) :
                    ret.outcome.value[n].chunk_type # "noise_merged"
        /\ ret.op = "get_context_window"
              => \A n \in 1..Len(ret.outcome.value) :
                    ret.outcome.value[n].chunk_type # "noise_merged"
        /\ ret.op = "search"
              => \A n \in 1..Len(ret.outcome.value) :
                    \A m \in 1..Len(ret.outcome.value[n].content) :
                        LET p == ret.outcome.value[n].content[m]
                        IN  p.kind = "raw_content"
                               => store[p.frag].chunk_type # "noise_merged"

\* An unfiltered similarity search that returned rows although the nearest
\* fragment of the store is noise.
W_C5_NoiseSkipped ==
    /\ ret.op = "search_by_vector" /\ ret.outcome.status = "returned"
    /\ ret.args.company_filter_list = None /\ ret.args.chunk_type_filter = None
    /\ Len(ret.outcome.value) = 2
    /\ \E i \in DOMAIN store :
          /\ store[i].chunk_type = "noise_merged"
          /\ \A j \in DOMAIN store : store[i].distance <= store[j].distance

\* C6: degrade-to-default. If the intent analysis fails for a query, search
\* does not raise because of that failure; it continues the pipeline with
\* the default analysis: intent general, no target companies,
\* is_competitor_query false and keywords = [query].
C6_DegradeToDefault ==
    (ret.op = "search" /\ ret.env.llm = None) =>
        /\ ret.analysis = Some([intent |-> "general", target_companies |-> << >>,
                                is_competitor_query |-> FALSE,
                                keywords |-> <<ret.args.query>>])
        /\ Len(ret.calls) >= 2 /\ ret.calls[2].op = "embed_text"
        /\ (ret.env.fault = "none" /\ ret.args.top_k >= 0)
              => ret.outcome.status = "returned"
        /\ ret.outcome.status = "raised"
              => /\ ret.env.fault # "none" \/ ret.args.top_k < 0
                 /\ ret.outcome.error.type \in {"EmbeddingError", "RepositoryError",
                                                "DriverError"}
        /\ ret.env.fault \notin {"embed_text"} =>
              \E n \in CallsOf("search_by_vector") :
                  /\ ret.calls[n].company_filter_list = Some(<< >>)
                  /\ ret.calls[n].top_k = ret.args.top_k

\* A search whose analysis failed and which returned hits all the same.
W_C6_AnalysisFailed ==
    /\ SearchReturned /\ ret.env.llm = None
    /\ ret.outcome.value # << >>

\* C7: propagate-with-context. Every repository operation (search_by_vector,
\* get_nearest_next_chunk, get_context_window, get_all_company_names) reports
\* a failure of the underlying query as RepositoryError carrying the original
\* cause: no raw driver exception escapes and none is swallowed.
C7_RepositoryErrorWraps ==
    (/\ ret.op \in {"search_by_vector", "get_nearest_next_chunk",
                    "get_context_window", "get_all_company_names"}
     /\ ret.env.driver_fails)
        => /\ ret.outcome.status = "raised"
           /\ ret.outcome.error = [type |-> "RepositoryError", cause |-> "DriverError"]

\* C8: a relational-store failure during an internal search is
\* distinguishable by the caller from 'no relevant data': when the store
\* raises inside PostgresRM.forward, the caller of forward observes an error
\* and does not receive an empty list.
C8_StoreFailureSurfaces ==
    (ret.op = "forward" /\ ret.env.store_down
        /\ \E n \in 1..Len(ret.calls) : ret.calls[n].op = "get_session")
        => /\ ret.outcome.status = "raised"
           /\ ret.outcome # Returned(<< >>)

\* C9: input validation. search called with an empty query or with
\* top_k <= 0 fails fast with a validation error, before the intent
\* analysis, the embedding or the store is invoked, and never returns an
\* empty list for such input.
C9_ValidatesInput ==
    (ret.op = "search" /\ (ret.args.query = EmptyStr \/ ret.args.top_k <= 0))
        => /\ ret.outcome.status = "raised"
           /\ ret.outcome.error.type = "ValidationError"
           /\ ret.calls = << >>

\* C10: no internal-only field crosses the public boundary. For every
\* combination of enable_rerank and enable_source_tagging, each fragment
\* returned by search has only content, title, url and score.
C10_NoInternalFields ==
    SearchReturned =>
        \A n \in 1..Len(ret.outcome.value) :
            DOMAIN ret.outcome.value[n] = {"content", "title", "url", "score"}

\* C11: result size bound. For every query, every analysis (competitor or
\* not) and every value of enable_rerank and enable_source_tagging,
\* search(query, top_k) returns at most top_k fragments.
C11_ResultSizeBound ==
    SearchReturned => Len(ret.outcome.value) <= ret.args.top_k

(* ---------------------------------------------------------------------- *)
(* Properties of HybridRM                                                   *)
(* ---------------------------------------------------------------------- *)
HybridReturned == ret.op = "hybrid_forward" /\ ret.outcome.status = "returned"

\* The dicts a retriever handed over, from what it did.
ItemsOf(reply) ==
    IF reply.status = "raised" THEN << >>
    ELSE IF reply.value.type = "list" THEN reply.value.list
    ELSE IF reply.value.type = "object" THEN reply.value.passages
    ELSE IF reply.value.type = "dict" THEN <<reply.value.dict>>
    ELSE << >>

FirstN(q, n) == [j \in 1..(IF n < Len(q) THEN n ELSE Len(q)) |-> q[j]]

WithSource(q, source) ==
    [j \in 1..Len(q) |->
        [f \in DOMAIN q[j] \cup {"source"} |-> IF f = "source" THEN source ELSE q[j][f]]]

\* What the two sides offer to the merge of the qi-th query: the capped
\* internal dicts, then the capped external ones.
Offered(qi) ==
    WithSource(FirstN(ItemsOf(ret.env.replies[qi].internal), hyConfig.internal_k),
               "internal")
        \o WithSource(FirstN(ItemsOf(ret.env.replies[qi].external),
                             hyConfig.external_k), "external")

UrlOf(item) == IF "url" \in DOMAIN item THEN item.url ELSE ""

\* The j-th offered dict is the first with its URL, or has none.
Fresh(seq, j) ==
    UrlOf(seq[j]) = "" \/ \A i \in 1..(j - 1) : UrlOf(seq[i]) # UrlOf(seq[j])

RECURSIVE KeepFresh(_, _)
KeepFresh(seq, j) ==
    IF j > Len(seq) THEN << >>
    ELSE (IF Fresh(seq, j) THEN <<seq[j]>> ELSE << >>) \o KeepFresh(seq, j + 1)

\* The part of the output that belongs to the qi-th query.
BlockAt(qi) == SelectSeq(ret.outcome.value, LAMBDA item : item.content[2] = qi)

BlockSet(qi) == {BlockAt(qi)[m] : m \in 1..Len(BlockAt(qi))}

\* C12: partial-result tolerance of HybridRM.forward. For each query,
\* whichever of the internal and the external search raises, forward raises
\* nothing, both sides are called, and the merged output for that query is
\* exactly the merge of the results of the sides that succeeded.
C12_PartialResults ==
    ret.op = "hybrid_forward" =>
        /\ ret.outcome.status = "returned"
        /\ Len(ret.calls) = 2 * Len(ret.env.replies)
        /\ \A qi \in 1..Len(ret.env.replies) :
              LET reply == ret.env.replies[qi]
                  internal == WithSource(FirstN(ItemsOf(reply.internal),
                                                hyConfig.internal_k), "internal")
                  external == WithSource(FirstN(ItemsOf(reply.external),
                                                hyConfig.external_k), "external")
              IN  /\ ret.calls[2 * qi - 1].op = "internal_rm.forward"
                  /\ ret.calls[2 * qi].op = "external_rm.forward"
                  /\ (reply.internal.status = "raised" /\ reply.external.status = "raised")
                        => BlockAt(qi) = << >>
                  /\ (reply.internal.status = "raised" /\ reply.external.status # "raised")
                        => BlockAt(qi) = KeepFresh(external, 1)
                  /\ (reply.internal.status # "raised" /\ reply.external.status = "raised")
                        => BlockAt(qi) = KeepFresh(internal, 1)
                  /\ (reply.internal.status # "raised" /\ reply.external.status # "raised")
                        => BlockAt(qi) = KeepFresh(internal \o external, 1)

\* The internal search raised, the external one returned two dicts with
\* distinct URLs, and the output is these two, tagged external.
W_C12_InternalFailed ==
    /\ HybridReturned
    /\ Len(ret.env.replies) = 1
    /\ ret.env.replies[1].internal.status = "raised"
    /\ Len(ret.outcome.value) = 2
    /\ ret.outcome.value[1].source = "external" /\ ret.outcome.value[2].source = "external"
    /\ UrlOf(ret.outcome.value[1]) = "u1" /\ UrlOf(ret.outcome.value[2]) = "u2"

\* C13: hybrid merge deduplication. For one query, of the capped internal
\* dicts followed by the capped external ones, a dict is in the merged list
\* if and only if its URL is missing or empty, or no earlier dict of that
\* sequence has the same URL; nothing else is in the merged list and no dict
\* is in it twice.
C13_MergeDedup ==
    HybridReturned =>
        \A qi \in 1..Len(ret.env.replies) :
            LET seq == Offered(qi)
                kept == {j \in 1..Len(seq) : Fresh(seq, j)}
            IN  /\ \A j \in 1..Len(seq) : (seq[j] \in BlockSet(qi)) <=> (j \in kept)
                /\ \A m \in 1..Len(BlockAt(qi)) :
                      \E j \in 1..Len(seq) : BlockAt(qi)[m] = seq[j]
                /\ Len(BlockAt(qi)) = Cardinality(kept)

\* Both sides returned a dict with URL u1 and a dict without URL: the
\* internal copy survives, the external one does not, both dicts without URL
\* are kept.
W_C13_SharedUrl ==
    /\ HybridReturned
    /\ Len(ret.env.replies) = 1
    /\ Len(Offered(1)) = 4
    /\ UrlOf(Offered(1)[1]) = "u1" /\ UrlOf(Offered(1)[3]) = "u1"
    /\ Offered(1)[1].source = "internal" /\ Offered(1)[3].source = "external"
    /\ ret.outcome.value = <<Offered(1)[1], Offered(1)[2], Offered(1)[4]>>
    /\ "url" \notin DOMAIN Offered(1)[2] /\ "url" \notin DOMAIN Offered(1)[4]

\* C14: hybrid caps. For each query HybridRM.forward contributes at most
\* internal_k dicts of the internal search and at most external_k dicts of
\* the external search, so at most internal_k + external_k per query,
\* whatever number of results either side returns.
C14_Caps ==
    HybridReturned =>
        \A qi \in 1..Len(ret.env.replies) :
            /\ Len(SelectSeq(BlockAt(qi), LAMBDA item : item.content[1] = "i"))
                  <= hyConfig.internal_k
            /\ Len(SelectSeq(BlockAt(qi), LAMBDA item : item.content[1] = "e"))
                  <= hyConfig.external_k
            /\ Len(BlockAt(qi)) <= hyConfig.internal_k + hyConfig.external_k

\* Both sides returned two dicts with distinct URLs under caps of 1 and 1,
\* and the output is the first of each.
W_C14_Capped ==
    /\ HybridReturned
    /\ hyConfig.internal_k = 1 /\ hyConfig.external_k = 1
    /\ Len(ret.env.replies) = 1
    /\ Len(ItemsOf(ret.env.replies[1].internal)) = 2
    /\ Len(ItemsOf(ret.env.replies[1].external)) = 2
    /\ Len(ret.outcome.value) = 2
    /\ ret.outcome.value[1].content = <<"i", 1, 1>>
    /\ ret.outcome.value[2].content = <<"e", 1, 1>>

\* C15: hybrid provenance. Every dict in the list returned by
\* HybridRM.forward has a source tag, and the tag is 'internal' exactly when
\* the internal search supplied the dict and 'external' exactly when the
\* external search did.
C15_Provenance ==
    HybridReturned =>
        \A m \in 1..Len(ret.outcome.value) :
            LET item == ret.outcome.value[m]
            IN  /\ "source" \in DOMAIN item
                /\ item.source = "internal" <=> item.content[1] = "i"
                /\ item.source = "external" <=> item.content[1] = "e"

\* An output with a dict of each side.
W_C15_BothSources ==
    /\ HybridReturned
    /\ \E m \in 1..Len(ret.outcome.value) :
          ret.outcome.value[m].content[1] = "i" /\ ret.outcome.value[m].source = "internal"
    /\ \E m \in 1..Len(ret.outcome.value) :
          ret.outcome.value[m].content[1] = "e" /\ ret.outcome.value[m].source = "external"

\* C16: multi-query ordering of HybridRM.forward. The output is the
\* concatenation, in input order, of the merged block of each query; within
\* a block the internal dicts precede the external ones and each side keeps
\* the order in which it was returned.
C16_Ordering ==
    HybridReturned =>
        \A a \in 1..Len(ret.outcome.value) : \A b \in 1..Len(ret.outcome.value) :
            LET x == ret.outcome.value[a].content
                y == ret.outcome.value[b].content
            IN  a < b =>
                    /\ x[2] <= y[2]
                    /\ x[2] = y[2] => ~(x[1] = "e" /\ y[1] = "i")
                    /\ (x[2] = y[2] /\ x[1] = y[1]) => x[3] < y[3]

\* Two queries, each with two internal dicts and an external one in the
\* output.
W_C16_TwoBlocks ==
    /\ HybridReturned
    /\ Len(ret.env.replies) = 2
    /\ Len(ret.outcome.value) = 6
    /\ \A qi \in 1..2 :
          /\ Len(SelectSeq(BlockAt(qi), LAMBDA item : item.content[1] = "i")) = 2
          /\ Len(SelectSeq(BlockAt(qi), LAMBDA item : item.content[1] = "e")) = 1

\* C20: usage accounting. HybridRM.usage is the number of queries submitted
\* to forward since the last reset (a string counts 1, a list its length,
\* failed searches included); get_usage_and_reset reports it under
\* 'HybridRM' together with the counters of the internal retriever and, if
\* it exposes them, of the external one, and leaves every reported counter
\* at 0, so that a get_usage_and_reset that follows at once reports 0.
C20_UsageAccounting ==
    /\ hyConfig # << >> => hyUsage = hySubmitted
    /\ ret.op = "get_usage_and_reset" =>
          LET report == ret.outcome.value
          IN  /\ DOMAIN report = IF hyConfig.external_has_usage
                                 THEN {"HybridRM", "PostgresRM", "SerperRM"}
                                 ELSE {"HybridRM", "PostgresRM"}
              /\ report["HybridRM"] = ret.env.submitted
              /\ report["PostgresRM"] = ret.env.internal
              /\ hyConfig.external_has_usage
                    => report["SerperRM"] = ret.env.external /\ extUsage = 0
              /\ hyUsage = 0 /\ rmUsage = 0
              /\ ret.env.submitted = 0 => report["HybridRM"] = 0

\* A reset that reported four queries, handed over as strings and as lists
\* with failed searches among them, for both retrievers.
W_C20_Reported ==
    /\ ret.op = "get_usage_and_reset"
    /\ hyConfig.external_has_usage
    /\ ret.env.submitted = MaxUsage
    /\ ret.outcome.value["HybridRM"] = MaxUsage
    /\ ret.outcome.value["PostgresRM"] = MaxUsage
    /\ ret.outcome.value["SerperRM"] = MaxUsage
    /\ hyUsage = 0 /\ rmUsage = 0 /\ extUsage = 0


(* ---------------------------------------------------------------------- *)
(* Properties of CompanyEntityResolver.resolve                              *)
(* ---------------------------------------------------------------------- *)
ResolveReturned == ret.op = "resolve" /\ ret.outcome.status = "returned"

\* The roster a resolve call ran against, as a set.
RosterOf(r) == SeqToSet(r.env.db_companies)

\* The canonical names the synonym table gives for a stripped query.
CanonicalOf(clean_query) ==
    {e[2] : e \in {m \in SYNONYM_MAP : m[1] = Lower(RemoveSpaces(clean_query))}}

\* The roster entries whose score reaches the threshold, and the best of them.
Passing(clean_query, roster, threshold) ==
    {x \in roster : Similarity(clean_query, x) >= threshold}

BestPassing(clean_query, roster, threshold) ==
    {x \in Passing(clean_query, roster, threshold) :
        \A y \in roster : Similarity(clean_query, y) <= Similarity(clean_query, x)}

\* What the three steps give for a non-empty query on a non-empty roster.
ByPrecedence(r, clean_query, roster) ==
    IF clean_query \in roster
    THEN r.outcome.value = Some(clean_query)
    ELSE IF CanonicalOf(clean_query) \cap roster # {}
    THEN r.outcome.value \in {Some(c) : c \in CanonicalOf(clean_query) \cap roster}
    ELSE IF BestPassing(clean_query, roster, r.args.threshold) = {}
    THEN r.outcome.value = None
    ELSE r.outcome.value \in
            {Some(x) : x \in BestPassing(clean_query, roster, r.args.threshold)}

\* C17: resolver precedence. On a non-empty query and roster, resolve
\* returns the stripped query if the roster holds it, whatever the synonym
\* table says; otherwise the synonym table's canonical name if the roster
\* holds that name; otherwise the fuzzy match (the best-scoring roster entry
\* reaching the threshold, or null), never a canonical name that the roster
\* does not hold.
C17_Precedence ==
    (ResolveReturned /\ ret.args.query # EmptyStr /\ ret.env.db_companies # << >>)
        => /\ ByPrecedence(ret, Strip(ret.args.query), RosterOf(ret))
           /\ \A c \in CanonicalOf(Strip(ret.args.query)) \ RosterOf(ret) :
                 ret.outcome.value # Some(c)

\* A query whose synonym is stale (NAVER is not in the roster) resolved by
\* the fuzzy step to the roster's 'naver'.
W_C17_StaleSynonymFallsThrough ==
    /\ ResolveReturned
    /\ ret.args.query = S_NaVer
    /\ S_NAVER \notin RosterOf(ret)
    /\ ret.outcome.value = Some(S_naver)

\* A roster name that resolve can be asked about as it stands: not empty and
\* without surrounding whitespace.
Trimmed(x) == x # EmptyStr /\ Strip(x) = x

\* C18: idempotence on canonical names. For every installed roster and every
\* name x of it that is non-empty and has no leading or trailing whitespace,
\* resolve(x) returns x, and resolving the result again returns it again.
C18_Idempotent ==
    (ResolveReturned /\ ret.args.query \in RosterOf(ret) /\ Trimmed(ret.args.query))
        => /\ ret.outcome.value = Some(ret.args.query)
           /\ Resolve(ret.env.db_companies, ret.args.query, ret.args.threshold)
                 = ret.outcome.value

\* A roster installed by update_company_list whose name 'naver', which the
\* synonym table maps to NAVER, was resolved to itself.
W_C18_RosterNameResolved ==
    /\ ResolveReturned
    /\ ret.args.query = S_naver
    /\ S_naver \in RosterOf(ret)
    /\ S_NAVER \in RosterOf(ret)
    /\ ret.outcome.value = Some(S_naver)

\* C18 as stated: resolve(x) returns x for every name x of the roster.
C18_EveryRosterName ==
    (ResolveReturned /\ ret.args.query \in RosterOf(ret))
        => ret.outcome.value = Some(ret.args.query)

\* C19: resolver outcome. resolve returns, and returns null or a member of
\* the roster; null when the query or the roster is empty; otherwise null
\* exactly when the roster holds neither the stripped query nor its synonym
\* and no roster entry scores at least the threshold. The roster is the
\* same after the call.
C19_Outcome ==
    ret.op = "resolve"
        => /\ ret.outcome.status = "returned"
           /\ ret.outcome.value \in {None} \cup {Some(x) : x \in RosterOf(ret)}
           /\ (ret.args.query = EmptyStr \/ ret.env.db_companies = << >>)
                 => ret.outcome.value = None
           /\ (ret.args.query # EmptyStr /\ ret.env.db_companies # << >>)
                 => (ret.outcome.value = None
                        <=> /\ Strip(ret.args.query) \notin RosterOf(ret)
                            /\ CanonicalOf(Strip(ret.args.query)) \cap RosterOf(ret) = {}
                            /\ Passing(Strip(ret.args.query), RosterOf(ret),
                                       ret.args.threshold) = {})
           /\ db_companies = ret.env.db_companies

\* A best match below the threshold: 'abc' scores 66 against 'Abc', the
\* threshold is 90, and resolve returned null.
W_C19_BelowThreshold ==
    /\ ResolveReturned
    /\ ret.args.query = S_abc
    /\ ret.args.threshold = 9000
    /\ S_Abc \in RosterOf(ret)
    /\ Similarity(S_abc, S_Abc) >= 6500
    /\ ret.outcome.value = None

(* ---------------------------------------------------------------------- *)
(* Further properties of _rerank_results                                    *)
(* ---------------------------------------------------------------------- *)
\* The hit of the output that came from input hit i, if it was kept.
KeptAs(i) == {j \in 1..Len(rrOut) : rrOut[j].url = i}

OffTargetInputs == {i \in 1..Len(rrResults) : ~OnTarget(rrResults[i]._company_name, rrResolved)}

OnTargetInputs == {i \in 1..Len(rrResults) : OnTarget(rrResults[i]._company_name, rrResolved)}

\* C24: comparison queries keep off-target hits unmodified. For intent =
\* comparison, whatever is_competitor_query is, every hit whose company
\* matches none of the targets is in the output of _rerank_results with
\* the score it came in with.
C24_ComparisonKeepsOffTarget ==
    (rrDone /\ rrAnalysis.intent = "comparison")
        => \A i \in OffTargetInputs :
              \E j \in KeptAs(i) : rrOut[j].score = rrResults[i].score

\* The early return of _rerank_results: no targets and not a competitor query.
ReturnsUnranked == rrResolved = << >> /\ ~rrAnalysis.is_competitor_query

\* Input hit i is in the output with its score times num / den.
Scaled(i, num, den) ==
    \E j \in KeptAs(i) : rrOut[j].score * den = rrResults[i].score * num

\* The boost of on-target hits and the penalty of off-target ones.
BoostAndPenalty ==
    /\ \A i \in OnTargetInputs : Scaled(i, 13, 10)
    /\ (~rrAnalysis.is_competitor_query /\ rrAnalysis.intent \in {"analytical", "general"})
          => \A i \in OffTargetInputs : Scaled(i, 1, 2)

\* C25: boost and penalty of the heuristic rerank. Unless the target list is
\* empty and is_competitor_query is false (then the hits are returned as they
\* came in), for every intent and competitor flag a hit whose company label
\* is empty/unknown or contains one of the lower-cased targets is kept with
\* its score multiplied by 1.3, and in non-competitor mode an off-target hit
\* under intent analytical or general is kept with its score multiplied by 0.5.
C25_BoostAndPenalty ==
    rrDone => IF ReturnsUnranked THEN rrOut = rrResults ELSE BoostAndPenalty

\* An analytical, non-competitor call that boosted one hit to 1.3 times its
\* score and penalised another to half of it.
W_C25_BoostedAndPenalised ==
    /\ rrDone /\ rrAnalysis.intent = "analytical" /\ ~rrAnalysis.is_competitor_query
    /\ rrResolved # << >>
    /\ \E i \in OnTargetInputs : rrResults[i].score = 50 /\ Scaled(i, 13, 10)
    /\ \E i \in OffTargetInputs : rrResults[i].score = 80 /\ Scaled(i, 1, 2)

\* C25 as stated: the boost and the penalty for every target list, the empty
\* one included.
C25_EveryTargetList == rrDone => BoostAndPenalty

(* ---------------------------------------------------------------------- *)
(* Further properties of search                                             *)
(* ---------------------------------------------------------------------- *)
\* The text fragments of the store, and the fragment a result was built from.
TextFrags == {i \in DOMAIN store : store[i].chunk_type = "text"}

FragOf(doc) == doc.url[5]

\* C26: un-filtered, un-prioritized pass. When the analysis has no target
\* companies and is_competitor_query = false (as the default substituted on
\* analysis failure has), search puts no company restriction on the store
\* query and returns the store's hits nearest first, each with score =
\* 1 - distance: the top_k nearest text fragments of all companies, none
\* boosted, penalised or dropped.
C26_UnfilteredPass ==
    (SearchReturned /\ ExpectedAnalysis.target_companies = << >>
                    /\ ~ExpectedAnalysis.is_competitor_query)
        => LET out == ret.outcome.value
           IN  /\ Len(out) = Min(ret.args.top_k, Cardinality(TextFrags))
               /\ \A n \in 1..Len(out) :
                     /\ FragOf(out[n]) \in TextFrags
                     /\ out[n].score = 100 - store[FragOf(out[n])].distance
                     /\ \A m \in 1..Len(out) :
                           n < m => store[FragOf(out[n])].distance
                                       < store[FragOf(out[m])].distance
                     /\ \A i \in TextFrags \ {FragOf(out[m]) : m \in 1..Len(out)} :
                           store[FragOf(out[n])].distance <= store[i].distance

\* The analysis failed, and search returned two hits of two companies.
W_C26_DefaultAnalysisTwoCompanies ==
    /\ SearchReturned
    /\ ret.env.llm = None
    /\ ret.args.enable_rerank
    /\ Len(ret.outcome.value) = 2
    /\ store[FragOf(ret.outcome.value[1])].company_name
          # store[FragOf(ret.outcome.value[2])].company_name

\* The forward lookups of the last search: one per row the store returned,
\* in the store's order.
Lookups == SelectSeq(ret.calls, LAMBDA c : c.op = "get_nearest_next_chunk")

\* C28: inside search the drop and penalty branches of the heuristic rerank
\* are not taken. When is_competitor_query is false and the resolved list
\* is non-empty, every hit the store returns belongs to a resolved company,
\* so with the rerank enabled search returns every one of them, in the
\* store's order, each with 1.3 times its score 1 - distance, for every
\* intent.
C28_AllHitsMatched ==
    (SearchReturned /\ ret.args.enable_rerank
        /\ ~ExpectedAnalysis.is_competitor_query
        /\ ExpectedAnalysis.target_companies # << >>)
        => LET out == ret.outcome.value
               resolved == ResolveAll(db_companies, ExpectedAnalysis.target_companies)
           IN  /\ Len(out) = Len(Lookups)
               /\ \A n \in 1..Len(out) :
                     LET frag == store[FragOf(out[n])]
                     IN  /\ n <= Len(Lookups)
                         /\ frag.report_id = Lookups[n].report_id
                         /\ frag.sequence_order = Lookups[n].current_seq
                         /\ frag.company_name \in SeqToSet(resolved)
                         /\ out[n].score * 10 = (100 - frag.distance) * 13

\* A factoid search for 'naver', resolved to NAVER, over a store that also
\* holds another company: two hits came back, both boosted.
W_C28_FactoidAllBoosted ==
    /\ SearchReturned /\ ret.args.enable_rerank
    /\ ret.env.llm # None
    /\ ret.env.llm[1].intent = "factoid"
    /\ ~ret.env.llm[1].is_competitor_query
    /\ ret.env.llm[1].target_companies = <<S_naver>>
    /\ db_companies # << >>
    /\ \E i \in DOMAIN store : store[i].company_name # S_NAVER
    /\ Len(ret.outcome.value) = 2
    /\ \A n \in 1..2 :
          /\ store[FragOf(ret.outcome.value[n])].company_name = S_NAVER
          /\ ret.outcome.value[n].score * 10
                = (100 - store[FragOf(ret.outcome.value[n])].distance) * 13

(* ---------------------------------------------------------------------- *)
(* Properties of PostgresRM                                                 *)
(* ---------------------------------------------------------------------- *)
ForwardDone == ret.op = "forward"

\* The sessions open after the first m calls of the last forward.
OpenAfter(m) == Opened(SubSeq(ret.calls, 1, m)) - Closed(SubSeq(ret.calls, 1, m))

\* C23: session scoping. Every store session PostgresRM acquires for a
\* search is released before that search ends, on every exit path: at most
\* one session is open at any point of a forward call, none is open when the
\* next search acquires its own, and none is open once forward has returned,
\* after any sequence of forward calls.
C23_SessionScoping ==
    /\ rmSessions = 0
    /\ ForwardDone
          => /\ OpenAfter(Len(ret.calls)) = 0
             /\ \A m \in 1..Len(ret.calls) :
                   /\ OpenAfter(m) \in {0, 1}
                   /\ ret.calls[m].op = "get_session" => OpenAfter(m - 1) = 0

\* A second forward call whose search acquired a session, failed, and left
\* no session open.
W_C23_ReleasedOnError ==
    /\ ForwardDone
    /\ ret.usage_before > 0
    /\ Opened(ret.calls) = 1
    /\ ret.caught # None
    /\ rmSessions = 0

\* The k a forward call searches with, and its queries.
SearchK == IF ret.args.k # None THEN ret.args.k[1] ELSE DefaultK

QueriesOf(r) ==
    IF r.args.query_or_queries.type = "str"
    THEN <<r.args.query_or_queries.value>>
    ELSE r.args.query_or_queries.value

\* What search(query, top_k = k) returns on a service over the same store.
Reference(query) ==
    Search(store, << >>, query, SearchK, TRUE, TRUE, ret.env.llm, "none").outcome

\* C27: the synchronous adapter passes the orchestrator's results through.
\* With every capability working, forward(query, k) returns one entry per
\* fragment that search(query, top_k = k) returns, in the same order, with
\* the same content, title, url and score and source = 'internal'; it is
\* not empty when the store holds matching text fragments.
C27_AdapterPassesThrough ==
    (ForwardDone /\ ~ret.env.store_down /\ ret.args.query_or_queries.type = "str"
        /\ Reference(ret.args.query_or_queries.value).status = "returned")
        => LET ref == Reference(ret.args.query_or_queries.value).value
               out == ret.outcome.value
           IN  /\ ret.outcome.status = "returned"
               /\ Len(out) = Len(ref)
               /\ \A n \in 1..Len(out) :
                     /\ n <= Len(ref)
                     /\ out[n].content = ref[n].content
                     /\ out[n].title = ref[n].title
                     /\ out[n].url = ref[n].url
                     /\ out[n].score = ref[n].score
                     /\ out[n].source = "internal"

\* C29: forward is all-or-nothing over its queries. If the search for any
\* query raises, forward returns the empty list, whatever was collected
\* before, and the usage counter has still grown by the number of queries of
\* the call.
C29_AllOrNothing ==
    ForwardDone
        => /\ rmUsage = ret.usage_before + Len(QueriesOf(ret))
           /\ ret.caught # None => ret.outcome = Returned(<< >>)

\* A forward call with a list of two queries whose search raised: the empty
\* list came back and the counter grew by 2.
W_C29_ListCallFailed ==
    /\ ForwardDone
    /\ ret.args.query_or_queries.type = "list"
    /\ Len(ret.args.query_or_queries.value) = 2
    /\ ret.caught # None
    /\ ret.outcome = Returned(<< >>)
    /\ rmUsage = ret.usage_before + 2

\* C30: min_score never changes membership. For every min_score and every
\* list of results of the orchestrator, the formatting of _search_async
\* returns one entry per result, in the same order, with the result's score
\* (0 if it has none), including the results whose score is below min_score.
C30_MinScoreKeepsAll ==
    ret.op = "format_results"
        => LET raw == ret.args.raw_results
               out == ret.outcome.value
           IN  /\ Len(out) = Len(raw)
               /\ \A n \in 1..Len(out) :
                     /\ n <= Len(raw)
                     /\ out[n].url = raw[n].url
                     /\ out[n].score = (IF "score" \in DOMAIN raw[n]
                                        THEN raw[n].score ELSE 0)

\* Two results, the first below min_score = 0.5 and the second above it,
\* both returned.
W_C30_LowScoreKept ==
    /\ ret.op = "format_results"
    /\ ret.args.min_score = DefaultMinScore
    /\ Len(ret.args.raw_results) = 2
    /\ Len(ret.outcome.value) = 2
    /\ ret.outcome.value[1].score < DefaultMinScore
    /\ ret.outcome.value[2].score > DefaultMinScore

(* ---------------------------------------------------------------------- *)
(* Properties under concurrency                                             *)
(* ---------------------------------------------------------------------- *)
Quiescent == threads # << >> /\ \A t \in DOMAIN threads : threads[t].pc = "idle"

\* C21: usage counters stay consistent under concurrency. With forward and
\* get_usage_and_reset called by several threads on one HybridRM, no
\* increment is lost or counted twice: once every call has returned, the
\* values get_usage_and_reset has reported plus the value it would report
\* now add up to the number of queries submitted.
C21_NoLostIncrement ==
    Quiescent => reported + hyUsage = hySubmitted

\* C22: roster refresh is atomic for readers. A resolve(q) that runs while
\* update_company_list replaces roster R_old by R_new returns what
\* resolve(q) returns on R_old alone or what it returns on R_new alone.
C22_OneSnapshot ==
    reader.pc = "done"
        => \/ reader.result = Resolve(reader.entered_with, reader.query, reader.threshold)
           \/ reader.result = Resolve(db_companies, reader.query, reader.threshold)

====
